---- MODULE Spec2Model ----
(***************************************************************************)
(* The tool-dispatch and response-normalisation layer of gdrive-mcp-server *)
(* (test_server.py, tools/drive.py, tools/sheets.py).                      *)
(*                                                                         *)
(* Every tool handler is a task that runs from its invocation to the       *)
(* envelope it returns; it talks to the upstream service only through      *)
(* `.execute()` / `next_chunk()` calls.  One step of the model is one      *)
(* upstream call of one invocation together with all the code the handler  *)
(* runs up to its next upstream call (or its return).                      *)
(*                                                                         *)
(* Three specifications: SpecClassifier runs the Error Classifier on every *)
(* raw failure; Spec serves invocations one after the other, as handlers   *)
(* that never await run; SpecConcurrent interleaves the pagination walks   *)
(* of two tasks at their upstream calls, the schedule of the design.       *)
(***************************************************************************)
EXTENDS Integers, Sequences, FiniteSets, TLC

VARIABLES
    drive_service,  \* the process-wide service handle (None until initialised)
    FOLDER_ID,      \* the configured default folder, os.getenv("FOLDER_ID")
    sheets_tools,   \* register_sheets_tools: how far it got, and the handle it built
    inv,            \* inv[s]: the invocation running in task slot s
    returned,       \* the invocation that returned in this step, if one did
    cls,            \* the Error Classifier on its own: [error, error_details]
    norm,           \* the Content Normalizer on its own: [content_bytes, mime_type, result]
    upstream        \* the spreadsheets create_expense_sheet has created upstream

vars == <<drive_service, FOLDER_ID, sheets_tools, inv, returned, cls, norm, upstream>>

(***************************************************************************)
(* Python values                                                           *)
(***************************************************************************)
\* Python's None, kept apart from every string the program handles.
None == "<None>"

\* bool(v) of an optional string / optional handle: None and "" are falsy.
Truthy(v) == v # None /\ v # ""

\* Python's `a or b`.
OrElse(a, b) == IF Truthy(a) THEN a ELSE b

\* d.get(key, default)
GetOr(d, key, default) == IF key \in DOMAIN d THEN d[key] ELSE default

\* the handle built by initialize_drive_service
DriveHandle == "drive_v3"

(***************************************************************************)
(* The raw upstream failure (googleapiclient HttpError): resp.status,      *)
(* resp.reason and content.  The content is modelled by what               *)
(* json.loads(error.content.decode('utf-8')) makes of it.                  *)
(***************************************************************************)
\* the four statuses the classifier names
ClassifiedStatuses == {400, 403, 404, 429}

Statuses == ClassifiedStatuses \cup {401, 500, 503}

Reasons == {"Forbidden", "Server Error"}

Messages == {"The caller does not have permission", "Backend Error"}

\* content kinds: no content attribute; bytes that are not UTF-8; text that
\* is not JSON; a JSON scalar; an object without "error"; an "error" object
\* without "message"; an "error" that is a string holding the text
\* "message"; an "error" object with a "message".
Contents ==
    {[kind |-> k, message |-> None] :
        k \in {"absent", "undecodable", "notjson", "scalar", "noerror",
               "nomessage", "errstring"}}
    \cup {[kind |-> "message", message |-> m] : m \in Messages}

HttpErrors ==
    [status : Statuses, reason : Reasons, content : Contents]

(***************************************************************************)
(* 4.1 Error Classifier: handle_api_error                                  *)
(***************************************************************************)
\* the suggestion attached to a classified status
Suggestion(status) ==
    CASE status = 403 -> "Check service account permissions and folder access"
      [] status = 404 -> "Verify the file/folder ID exists and is accessible"
      [] status = 429 -> "Too many requests, please try again later"
      [] status = 400 -> "Check request parameters"
      [] OTHER -> None

ErrorText(status) ==
    CASE status = 403 -> "Permission denied"
      [] status = 404 -> "Resource not found"
      [] status = 429 -> "Rate limit exceeded"
      [] status = 400 -> "Invalid request"
      [] OTHER -> "API request failed"

\* The body of the try block that reads the details: what it raises, or the
\* message it found.  raised = None when the block completes.
ReadDetails(error) ==
    LET k == error.content.kind IN
    CASE k = "absent"      -> [raised |-> None, found |-> FALSE, message |-> None]
      [] k = "undecodable" -> [raised |-> "UnicodeDecodeError", found |-> FALSE, message |-> None]
      [] k = "notjson"     -> [raised |-> "JSONDecodeError", found |-> FALSE, message |-> None]
      [] k = "scalar"      -> [raised |-> "TypeError", found |-> FALSE, message |-> None]
      [] k = "noerror"     -> [raised |-> None, found |-> FALSE, message |-> None]
      [] k = "nomessage"   -> [raised |-> None, found |-> FALSE, message |-> None]
      [] k = "errstring"   -> [raised |-> "TypeError", found |-> FALSE, message |-> None]
      [] k = "message"     -> [raised |-> None, found |-> TRUE, message |-> error.content.message]

\* A bug the bare `except:` rules out: catching only the decoding errors.
TryDetailsNarrow(error) ==
    LET d == ReadDetails(error) IN
    IF d.raised = "TypeError" THEN d
    ELSE [raised |-> None, found |-> d.found /\ d.raised = None, message |-> d.message]

\* try: ... except: pass  -- every exception of the block is swallowed.
TryDetails(error) ==
    LET d == ReadDetails(error) IN
    [raised |-> None, found |-> d.found /\ d.raised = None, message |-> d.message]

\* A bug in the status chain: 429 falls through to the generic text.
StatusFieldsNo429(status, reason) ==
    LET base == [error |-> IF status = 429 THEN "API request failed" ELSE ErrorText(status),
                 status_code |-> status, reason |-> reason]
    IN IF status \in ClassifiedStatuses \ {429}
       THEN base @@ [suggestion |-> Suggestion(status)]
       ELSE base

\* error_details after the if/elif chain on error.resp.status
StatusFields(status, reason) ==
    LET base == [error |-> ErrorText(status), status_code |-> status, reason |-> reason]
    IN IF status \in ClassifiedStatuses
       THEN base @@ [suggestion |-> Suggestion(status)]
       ELSE base

\* An exception that leaves a function, as a value.
Raised(exc) == [raised |-> exc]

IsRaised(v) == DOMAIN v = {"raised"}

handle_api_error(error) ==
    LET d == TryDetails(error)
        e == StatusFields(error.status, error.reason)
    IN IF d.raised # None THEN Raised(d.raised)
       ELSE IF d.found THEN e @@ [details |-> d.message]
       ELSE e

(***************************************************************************)
(* The classifier as a program of its own: an input is drawn, then         *)
(* classified.                                                             *)
(***************************************************************************)
\* the classifier at rest, as the tool invocations leave it
ClsIdle == [pc |-> "idle", error |-> [none |-> TRUE], error_details |-> [none |-> TRUE]]

InitClassifier ==
    /\ drive_service = DriveHandle
    /\ FOLDER_ID = None
    /\ sheets_tools = [pc |-> "start", sheets_service |-> None, raised |-> None]
    /\ inv = <<>>
    /\ returned = [pc |-> "none"]
    /\ cls \in [pc : {"input"}, error : HttpErrors, error_details : {[none |-> TRUE]}]
    /\ norm = [pc |-> "idle"]
    /\ upstream = <<>>

Classify ==
    /\ cls.pc = "input"
    /\ cls' = [cls EXCEPT !.pc = "classified",
                          !.error_details = handle_api_error(cls.error)]
    /\ UNCHANGED <<drive_service, FOLDER_ID, sheets_tools, inv, returned, norm, upstream>>

NextClassifier == Classify

SpecClassifier == InitClassifier /\ [][NextClassifier]_vars


(***************************************************************************)
(* Bounds of the model                                                     *)
(***************************************************************************)
\* the longest listing the upstream serves, in pages
MaxPages == 3

\* the task slots: two invocations may be in flight at once
Slots == {1, 2}

(***************************************************************************)
(* The upstream collaborator                                               *)
(***************************************************************************)
\* the upstream failures the tool invocations meet (the classifier is
\* checked against all of HttpErrors under SpecClassifier)
UpstreamHttpErrors ==
    {[status |-> 403, reason |-> "Forbidden",
      content |-> [kind |-> "message", message |-> "The caller does not have permission"]],
     [status |-> 500, reason |-> "Server Error",
      content |-> [kind |-> "notjson", message |-> None]]}

\* a failure of the call that is no HttpError (transport, credentials)
TransportErrors == {"Unable to find the server"}

\* how a call can fail: with an HttpError or with another exception
Failures ==
    {[kind |-> "http", error |-> e] : e \in UpstreamHttpErrors}
    \cup {[kind |-> "exc", message |-> m] : m \in TransportErrors}

\* the opaque continuation token of page k of the listing served to task s:
\* no two pages and no two walks in flight get the same token
Token(s, k) == "tok-" \o ToString(s) \o "-" \o ToString(k)

\* the records a page may hold: none, or two records in upstream order
PageLens == {0, 2}

FileRecord(k, i) ==
    [id |-> "file-" \o ToString(k) \o "-" \o ToString(i),
     mimeType |-> IF i = 1 THEN "text/plain" ELSE "image/png",
     size |-> IF i = 1 THEN "512" ELSE "1024"]

PageFiles(k, n) == [i \in 1..n |-> FileRecord(k, i)]

\* a page holding one record without a size (a folder) and one whose size
\* is no number
OddSizes(k) ==
    <<[id |-> "file-" \o ToString(k) \o "-1",
       mimeType |-> "application/vnd.google-apps.folder"],
      [id |-> "file-" \o ToString(k) \o "-2", mimeType |-> "text/plain",
       size |-> "n/a"]>>

\* the responses of files().list(...).execute() for the k-th call of task s
ListResponses(s, k) ==
    {[kind |-> "ok", files |-> PageFiles(k, n), nextPageToken |-> t] :
        n \in PageLens,
        t \in (IF k < MaxPages THEN {None, Token(s, k)} ELSE {None})}
    \cup {[kind |-> "ok", files |-> OddSizes(k), nextPageToken |-> None]}

(***************************************************************************)
(* Envelopes                                                               *)
(***************************************************************************)
NotInitialized == [error |-> "Drive service not initialized"]

NoFolder ==
    [error |-> "No folder ID provided and FOLDER_ID environment variable not set"]

\* A bug: the handler has no outer except, the exception leaves it.
UnexpectedPropagates(message) == Raised(message)

\* except Exception as e: return {"error": f"Unexpected error: {str(e)}"}
Unexpected(message) == [error |-> "Unexpected error: " \o message]

\* what a handler returns for a value its classifier call produced: the
\* call sits inside the handler's outer try, so an exception leaving the
\* classifier is reported like any other unexpected failure
Classified(error) ==
    LET d == handle_api_error(error)
    IN IF IsRaised(d) THEN Unexpected(d.raised) ELSE d

(***************************************************************************)
(* Invocations                                                             *)
(***************************************************************************)
NoValue == [none |-> TRUE]

\* a free task slot
Idle ==
    [op |-> "idle", pc |-> "idle", args |-> NoValue, calls |-> <<>>,
     rcvd |-> <<>>, heard |-> <<>>, loc |-> NoValue, last |-> NoValue,
     result |-> NoValue]

\* a handler that has just been entered with arguments a
Entered(op, a) ==
    [op |-> op, pc |-> "entered", args |-> a, calls |-> <<>>,
     rcvd |-> <<>>, heard |-> <<>>, loc |-> NoValue, last |-> NoValue,
     result |-> NoValue]

\* the walk r hears the answer o of the upstream to its call: heard is every
\* answer to the walk so far, the failed one included
Heard(r, o) == [r EXCEPT !.heard = Append(@, o)]

\* return v
Return(r, v) == [r EXCEPT !.pc = "done", !.result = v]

\* the handler's except clauses for a call that failed with f, when the
\* handler classifies HttpErrors with handle_api_error
CatchClassified(r, f) ==
    [Return(r, IF f.kind = "http" THEN Classified(f.error)
               ELSE Unexpected(f.message))
     EXCEPT !.last = f]

\* no invocation returned in this step
NoReturn == [pc |-> "none"]

\* Task s moves to r.  A handler that returns hands its envelope to the
\* caller and frees its slot at once: returned shows the finished
\* invocation for the one step in which it returns.
Advance(s, r) ==
    IF r.pc = "done"
    THEN /\ inv' = [inv EXCEPT ![s] = Idle]
         /\ returned' = r @@ [task |-> s]
    ELSE /\ inv' = [inv EXCEPT ![s] = r]
         /\ returned' = NoReturn

(***************************************************************************)
(* test_server.py: list_files                                              *)
(***************************************************************************)
FolderArgs == {None, "", "folder-A"}

MimeArgs == {None, "text/plain"}

PageSizeArgs == {0, 100, 5000}

\* A bug: only the upper limit is enforced.
ClampUpperOnly(page_size) == IF page_size > 1000 THEN 1000 ELSE page_size

\* page_size = min(max(page_size, 1), 1000)
ClampPageSize(page_size) ==
    LET lo == IF page_size > 1 THEN page_size ELSE 1
    IN IF lo < 1000 THEN lo ELSE 1000

\* A bug: the configured default wins over the argument.
TargetFolderDefaultFirst(folder_id) == OrElse(FOLDER_ID, folder_id)

\* target_folder = folder_id or FOLDER_ID
TargetFolder(folder_id) == OrElse(folder_id, FOLDER_ID)

\* query = " and ".join(query_parts)
ListQuery(target_folder, mime_type) ==
    IF Truthy(mime_type)
    THEN "'" \o target_folder \o "' in parents and mimeType = '" \o mime_type \o "'"
    ELSE "'" \o target_folder \o "' in parents"

\* if not drive_service
ServiceMissing(service) == ~Truthy(service)

\* the handler up to its first upstream call
list_files_begin(a) ==
    LET r == Entered("list_files", a)
        target_folder == TargetFolder(a.folder_id)
    IN IF ServiceMissing(drive_service) THEN Return(r, NotInitialized)
       ELSE IF ~Truthy(target_folder) THEN Return(r, NoFolder)
       ELSE [r EXCEPT !.pc = "list",
                      !.loc = [target_folder |-> target_folder,
                               query |-> ListQuery(target_folder, a.mime_type),
                               page_size |-> ClampPageSize(a.page_size),
                               all_files |-> <<>>,
                               page_token |-> None]]

\* A bug: the cursor lives in a variable the tasks share, so a call sends
\* the cursor another walk in flight received last.
ListCallSharedCursor(r) ==
    LET others == {inv[t].loc.page_token :
                      t \in {u \in Slots : inv[u].pc = "list" /\ inv[u] # r}}
        theirs == {t \in others : Truthy(t)}
    IN [api |-> "files.list", q |-> r.loc.query, pageSize |-> r.loc.page_size,
        pageToken |-> IF theirs # {} THEN CHOOSE t \in theirs : TRUE
                      ELSE r.loc.page_token]

\* the request of one pass of the while loop
ListCall(r) ==
    [api |-> "files.list", q |-> r.loc.query, pageSize |-> r.loc.page_size,
     pageToken |-> r.loc.page_token]

\* A bug: the error of a failed page is returned along with the records
\* gathered so far.
WalkFailedWithFiles(r, f) ==
    LET failed == CatchClassified(r, f)
    IN [failed EXCEPT !.result = @ @@ [count |-> Len(r.loc.all_files),
                                       files |-> r.loc.all_files]]

\* A bug: a failed page ends the walk with what was gathered so far.
WalkFailedPartial(r, f) ==
    [Return(r, [folder_id |-> r.loc.target_folder, count |-> Len(r.loc.all_files),
                files |-> r.loc.all_files])
     EXCEPT !.last = f]

\* except HttpError as e: return handle_api_error(e); anything else reaches
\* the outer except Exception
WalkFailed(r, f) == CatchClassified(r, f)

\* A bug: the page is put in front of what was gathered, so the pages
\* come out in reverse order.
list_files_page_Prepends(r, o) ==
    LET called == [r EXCEPT !.calls = Append(@, ListCall(r))]
    IN IF o.kind # "ok" THEN WalkFailed(called, o)
       ELSE LET all_files == o.files \o called.loc.all_files
                got == [called EXCEPT !.rcvd = Append(@, o.nextPageToken),
                                      !.last = o,
                                      !.loc.all_files = all_files,
                                      !.loc.page_token = o.nextPageToken]
            IN IF Truthy(o.nextPageToken) THEN got
               ELSE Return(got, [folder_id |-> got.loc.target_folder,
                                 count |-> Len(all_files),
                                 files |-> all_files])

\* A bug: the accumulator is a list the tasks share, so a pass appends its
\* page to what another walk in flight has gathered.
list_files_page_SharedAccumulator(r, o) ==
    LET called == [r EXCEPT !.calls = Append(@, ListCall(r))]
        theirs == {inv[u].loc.all_files :
                      u \in {t \in Slots : inv[t].pc = "list" /\ Heard(inv[t], o) # r}}
    IN IF o.kind # "ok" THEN WalkFailed(called, o)
       ELSE LET all_files == (IF theirs # {} THEN CHOOSE f \in theirs : TRUE
                              ELSE called.loc.all_files) \o o.files
                got == [called EXCEPT !.rcvd = Append(@, o.nextPageToken),
                                      !.last = o,
                                      !.loc.all_files = all_files,
                                      !.loc.page_token = o.nextPageToken]
            IN IF Truthy(o.nextPageToken) THEN got
               ELSE Return(got, [folder_id |-> got.loc.target_folder,
                                 count |-> Len(all_files),
                                 files |-> all_files])

\* one pass of the while loop of list_files, the call answered by o
list_files_page(r, o) ==
    LET called == [r EXCEPT !.calls = Append(@, ListCall(r))]
    IN IF o.kind # "ok" THEN WalkFailed(called, o)
       ELSE LET all_files == called.loc.all_files \o o.files
                got == [called EXCEPT !.rcvd = Append(@, o.nextPageToken),
                                      !.last = o,
                                      !.loc.all_files = all_files,
                                      !.loc.page_token = o.nextPageToken]
            IN IF Truthy(o.nextPageToken) THEN got
               ELSE Return(got, [folder_id |-> got.loc.target_folder,
                                 count |-> Len(all_files),
                                 files |-> all_files])

ListFilesArgs ==
    [folder_id : FolderArgs, mime_type : MimeArgs, page_size : PageSizeArgs]

Invoke_list_files(s) ==
    /\ inv[s].pc = "idle"
    /\ \E a \in ListFilesArgs : Advance(s, list_files_begin(a))
    /\ UNCHANGED <<drive_service, FOLDER_ID, sheets_tools, cls, norm, upstream>>

Step_list_files(s) ==
    /\ inv[s].op = "list_files"
    /\ inv[s].pc = "list"
    /\ \E o \in ListResponses(s, Len(inv[s].rcvd) + 1) \cup Failures :
          Advance(s, list_files_page(Heard(inv[s], o), o))
    /\ UNCHANGED <<drive_service, FOLDER_ID, sheets_tools, cls, norm, upstream>>

(***************************************************************************)
(* test_server.py: create_sheet                                            *)
(***************************************************************************)
SheetNames == {"Budget"}

\* the record files().create(...).execute() answers with, and the answer
\* that lacks every field
CreateResponses(name) ==
    {[kind |-> "ok", body |-> [id |-> "sheet-1", name |-> name,
                               webViewLink |-> "https://docs/sheet-1",
                               createdTime |-> "2024-01-01T00:00:00Z"]],
     [kind |-> "ok", body |-> [empty |-> TRUE]]}

\* d.get(key), None when the key is missing
Get(d, key) == IF key \in DOMAIN d THEN d[key] ELSE None

create_sheet_begin(a) ==
    LET r == Entered("create_sheet", a)
        target_folder == TargetFolder(a.folder_id)
    IN IF ServiceMissing(drive_service) THEN Return(r, NotInitialized)
       ELSE IF ~Truthy(target_folder) THEN Return(r, NoFolder)
       ELSE [r EXCEPT !.pc = "create",
                      !.loc = [target_folder |-> target_folder]]

create_sheet_create(r, o) ==
    LET file_metadata == [name |-> r.args.name,
                          mimeType |-> "application/vnd.google-apps.spreadsheet",
                          parents |-> <<r.loc.target_folder>>]
        called == [r EXCEPT !.calls = Append(@, [api |-> "files.create",
                                                 body |-> file_metadata])]
    IN IF o.kind # "ok" THEN CatchClassified(called, o)
       ELSE Return([called EXCEPT !.last = o],
                   [success |-> TRUE,
                    sheet |-> [id |-> Get(o.body, "id"),
                               name |-> Get(o.body, "name"),
                               webViewLink |-> Get(o.body, "webViewLink"),
                               createdTime |-> Get(o.body, "createdTime")]])

Invoke_create_sheet(s) ==
    /\ inv[s].pc = "idle"
    /\ \E a \in [name : SheetNames, folder_id : FolderArgs] :
          Advance(s, create_sheet_begin(a))
    /\ UNCHANGED <<drive_service, FOLDER_ID, sheets_tools, cls, norm, upstream>>

Step_create_sheet(s) ==
    /\ inv[s].op = "create_sheet"
    /\ inv[s].pc = "create"
    /\ \E o \in CreateResponses(inv[s].args.name) \cup Failures :
          Advance(s, create_sheet_create(inv[s], o))
    /\ UNCHANGED <<drive_service, FOLDER_ID, sheets_tools, cls, norm, upstream>>

(***************************************************************************)
(* test_server.py: get_folder_metadata, format_bytes                       *)
(***************************************************************************)
RECURSIVE Pow1024(_)
Pow1024(k) == IF k = 0 THEN 1 ELSE 1024 * Pow1024(k - 1)

Units == <<"B", "KB", "MB", "GB", "TB", "PB">>

\* the unit the loop of format_bytes stops at: the first of B..TB under
\* which the value is below 1024, PB otherwise
UnitIndex(bytes) ==
    IF \E k \in 0..4 : bytes < Pow1024(k + 1)
    THEN CHOOSE k \in 0..4 : /\ bytes < Pow1024(k + 1)
                             /\ \A j \in 0..(k - 1) : bytes >= Pow1024(j + 1)
    ELSE 5

\* f"{bytes:.2f} {unit}": the value in hundredths, rounded half to even,
\* and the unit
format_bytes(bytes) ==
    LET k == UnitIndex(bytes)
        den == Pow1024(k)
        q == (bytes * 100) \div den
        rem == (bytes * 100) % den
        h == IF 2 * rem > den THEN q + 1
             ELSE IF 2 * rem = den THEN q + (q % 2)
             ELSE q
    IN [hundredths |-> h, unit |-> Units[k + 1]]

\* int(text) for the size texts the upstream sends; any other text raises
\* ValueError
IntOf(text) ==
    CASE text = "512" -> [raised |-> None, value |-> 512]
      [] text = "1024" -> [raised |-> None, value |-> 1024]
      [] OTHER -> Raised("invalid literal for int() with base 10: '" \o text \o "'")

RECURSIVE SumSizes(_)
\* sum(int(f.get('size', 0)) for f in all_files if f.get('size')): the sum,
\* or the exception int() raises on the first size that is no number
SumSizes(files) ==
    IF files = <<>> THEN [raised |-> None, value |-> 0]
    ELSE LET f == Head(files)
             n == IF "size" \in DOMAIN f /\ Truthy(f.size) THEN IntOf(f.size)
                  ELSE [raised |-> None, value |-> 0]
             rest == SumSizes(Tail(files))
         IN IF IsRaised(n) THEN n
            ELSE IF IsRaised(rest) THEN rest
            ELSE [raised |-> None, value |-> n.value + rest.value]

\* mime_type_counts
MimeTypeCounts(files) ==
    [m \in {files[i].mimeType : i \in 1..Len(files)} |->
        Cardinality({i \in 1..Len(files) : files[i].mimeType = m})]

\* files().get(fileId=target_folder, ...).execute()
FolderInfoResponses(target_folder) ==
    {[kind |-> "ok", body |-> [id |-> target_folder, name |-> "Receipts",
                               createdTime |-> "2023-12-01T00:00:00Z",
                               modifiedTime |-> "2024-01-01T00:00:00Z",
                               owners |-> <<"owner@example.com">>]]}

get_folder_metadata_begin(a) ==
    LET r == Entered("get_folder_metadata", a)
        target_folder == TargetFolder(a.folder_id)
    IN IF ServiceMissing(drive_service) THEN Return(r, NotInitialized)
       ELSE IF ~Truthy(target_folder) THEN Return(r, NoFolder)
       ELSE [r EXCEPT !.pc = "get",
                      !.loc = [target_folder |-> target_folder]]

\* the folder details, then the locals of the walk
get_folder_metadata_get(r, o) ==
    LET called == [r EXCEPT !.calls = Append(@, [api |-> "files.get",
                                                 fileId |-> r.loc.target_folder])]
    IN IF o.kind # "ok" THEN CatchClassified(called, o)
       ELSE [called EXCEPT !.pc = "list",
                           !.last = o,
                           !.loc = [target_folder |-> r.loc.target_folder,
                                    folder_info |-> o.body,
                                    query |-> "'" \o r.loc.target_folder \o "' in parents",
                                    page_size |-> 100,
                                    all_files |-> <<>>,
                                    page_token |-> None]]

FolderMetadata(folder_info, all_files) ==
    LET total_size == SumSizes(all_files).value
    IN [folder |-> [id |-> Get(folder_info, "id"),
                    name |-> Get(folder_info, "name"),
                    createdTime |-> Get(folder_info, "createdTime"),
                    modifiedTime |-> Get(folder_info, "modifiedTime"),
                    owners |-> IF "owners" \in DOMAIN folder_info
                               THEN folder_info.owners ELSE <<>>],
        statistics |-> [total_files |-> Len(all_files),
                        total_size_bytes |-> total_size,
                        total_size_readable |-> format_bytes(total_size),
                        mime_type_distribution |-> MimeTypeCounts(all_files)],
        files |-> all_files]

\* one pass of the while loop of get_folder_metadata
get_folder_metadata_page(r, o) ==
    LET called == [r EXCEPT !.calls = Append(@, ListCall(r))]
    IN IF o.kind # "ok" THEN WalkFailed(called, o)
       ELSE LET all_files == called.loc.all_files \o o.files
                got == [called EXCEPT !.rcvd = Append(@, o.nextPageToken),
                                      !.last = o,
                                      !.loc.all_files = all_files,
                                      !.loc.page_token = o.nextPageToken]
            IN IF Truthy(o.nextPageToken) THEN got
               ELSE IF IsRaised(SumSizes(all_files))
               THEN Return(got, Unexpected(SumSizes(all_files).raised))
               ELSE Return(got, FolderMetadata(got.loc.folder_info, all_files))

Invoke_get_folder_metadata(s) ==
    /\ inv[s].pc = "idle"
    /\ \E a \in [folder_id : FolderArgs, include_subfolders : BOOLEAN] :
          Advance(s, get_folder_metadata_begin(a))
    /\ UNCHANGED <<drive_service, FOLDER_ID, sheets_tools, cls, norm, upstream>>

Step_get_folder_metadata(s) ==
    /\ inv[s].op = "get_folder_metadata"
    /\ \/ /\ inv[s].pc = "get"
          /\ \E o \in FolderInfoResponses(inv[s].loc.target_folder) \cup Failures :
                Advance(s, get_folder_metadata_get(Heard(inv[s], o), o))
       \/ /\ inv[s].pc = "list"
          /\ \E o \in ListResponses(s, Len(inv[s].rcvd) + 1) \cup Failures :
                Advance(s, get_folder_metadata_page(Heard(inv[s], o), o))
    /\ UNCHANGED <<drive_service, FOLDER_ID, sheets_tools, cls, norm, upstream>>

(***************************************************************************)
(* Text the code works on character by character is a sequence of code     *)
(* points; bytes are a sequence of 0..255.                                 *)
(***************************************************************************)
\* "'"
Quote == 39

\* "\"
Backslash == 92

\* "fullText contains '"
FullTextPrefix == <<102, 117, 108, 108, 84, 101, 120, 116, 32, 99, 111, 110, 116, 97, 105, 110, 115, 32, 39>>

\* "' in parents and "
InParentsAnd == <<39, 32, 105, 110, 32, 112, 97, 114, 101, 110, 116, 115, 32, 97, 110, 100, 32>>

\* the code points of the configured folder identifier
FolderChars(folder) ==
    CASE folder = "folder-D" -> <<102, 111, 108, 100, 101, 114, 45, 68>>
      [] folder = "folder-A" -> <<102, 111, 108, 100, 101, 114, 45, 65>>
      [] OTHER -> <<>>

RECURSIVE Replace(_, _, _)
\* str.replace(old, new) for a one-character old
Replace(text, old, new) ==
    IF text = <<>> THEN <<>>
    ELSE (IF Head(text) = old THEN new ELSE <<Head(text)>>) \o Replace(Tail(text), old, new)

(***************************************************************************)
(* tools/drive.py: gdrive_search                                           *)
(***************************************************************************)
\* str(e) of an HttpError, as the f-strings of the drive and sheets tools
\* embed it
HttpErrorStr(e) ==
    "<HttpError " \o ToString(e.status) \o " returned \"" \o e.reason \o "\">"

\* except HttpError as e: return {"error": f"<what>: {e}"}
\* except Exception as e: return {"error": f"Unexpected error: {e}"}
CatchFormatted(r, what, f) ==
    [Return(r, IF f.kind = "http" THEN [error |-> what \o ": " \o HttpErrorStr(f.error)]
               ELSE Unexpected(f.message))
     EXCEPT !.last = f]

\* a, it's, \' and \
QueryArgs == {<<97>>, <<105, 116, Quote, 115>>, <<Backslash, Quote>>, <<Backslash>>}

\* escaped_query = query.replace("'", "\\'")
EscapeQuery(query) == Replace(query, Quote, <<Backslash, Quote>>)

\* search_query, with the folder restriction when FOLDER_ID is set
SearchQuery(query) ==
    LET search_query == FullTextPrefix \o EscapeQuery(query) \o <<Quote>>
    IN IF Truthy(FOLDER_ID)
       THEN <<Quote>> \o FolderChars(FOLDER_ID) \o InParentsAnd \o search_query
       ELSE search_query

SearchResponses ==
    {[kind |-> "ok", files |-> PageFiles(1, n)] : n \in PageLens}

gdrive_search_begin(a) ==
    LET r == Entered("gdrive_search", a)
    IN IF ServiceMissing(drive_service) THEN Return(r, NotInitialized)
       ELSE [r EXCEPT !.pc = "list",
                      !.loc = [search_query |-> SearchQuery(a.query)]]

gdrive_search_list(r, o) ==
    LET called == [r EXCEPT !.calls = Append(@, [api |-> "files.list",
                                                 q |-> r.loc.search_query,
                                                 pageSize |-> 20])]
    IN IF o.kind # "ok" THEN CatchFormatted(called, "Search failed", o)
       ELSE Return([called EXCEPT !.last = o],
                   [results |-> o.files, count |-> Len(o.files)])

Invoke_gdrive_search(s) ==
    /\ inv[s].pc = "idle"
    /\ \E a \in [query : QueryArgs] :
          Advance(s, gdrive_search_begin(a))
    /\ UNCHANGED <<drive_service, FOLDER_ID, sheets_tools, cls, norm, upstream>>

Step_gdrive_search(s) ==
    /\ inv[s].op = "gdrive_search"
    /\ inv[s].pc = "list"
    /\ \E o \in SearchResponses \cup Failures :
          Advance(s, gdrive_search_list(inv[s], o))
    /\ UNCHANGED <<drive_service, FOLDER_ID, sheets_tools, cls, norm, upstream>>

(***************************************************************************)
(* 4.3 Content Normalizer: bytes.decode('utf-8') and base64.b64encode      *)
(***************************************************************************)
Cont(b) == 128 <= b /\ b <= 191

RECURSIVE Utf8Decode(_)
\* bytes.decode('utf-8'): the code points, or raised when the bytes are no
\* well-formed UTF-8 (overlong forms, surrogates and values above U+10FFFF
\* are rejected)
Utf8Decode(bytes) ==
    IF bytes = <<>> THEN [raised |-> FALSE, text |-> <<>>]
    ELSE
      LET b1 == bytes[1]
          n == Len(bytes)
          len == IF b1 < 128 THEN 1
                 ELSE IF 194 <= b1 /\ b1 <= 223 THEN 2
                 ELSE IF 224 <= b1 /\ b1 <= 239 THEN 3
                 ELSE IF 240 <= b1 /\ b1 <= 244 THEN 4
                 ELSE 0
          wellFormed ==
              /\ len > 0
              /\ n >= len
              /\ \A i \in 2..len : Cont(bytes[i])
              /\ (b1 = 224 => bytes[2] >= 160)
              /\ (b1 = 237 => bytes[2] <= 159)
              /\ (b1 = 240 => bytes[2] >= 144)
              /\ (b1 = 244 => bytes[2] <= 143)
      IN IF ~wellFormed THEN [raised |-> TRUE, text |-> <<>>]
         ELSE
           LET cp == CASE len = 1 -> b1
                       [] len = 2 -> (b1 - 192) * 64 + (bytes[2] - 128)
                       [] len = 3 -> (b1 - 224) * 4096 + (bytes[2] - 128) * 64
                                     + (bytes[3] - 128)
                       [] len = 4 -> (b1 - 240) * 262144 + (bytes[2] - 128) * 4096
                                     + (bytes[3] - 128) * 64 + (bytes[4] - 128)
               rest == Utf8Decode(SubSeq(bytes, len + 1, n))
           IN IF rest.raised THEN rest
              ELSE [raised |-> FALSE, text |-> <<cp>> \o rest.text]

\* the character of a 6-bit value in the base64 alphabet
B64Char(v) ==
    IF v < 26 THEN 65 + v
    ELSE IF v < 52 THEN 97 + (v - 26)
    ELSE IF v < 62 THEN 48 + (v - 52)
    ELSE IF v = 62 THEN 43
    ELSE 47

\* "="
B64Pad == 61

RECURSIVE b64encode(_)
\* base64.b64encode(content_bytes).decode('utf-8')
b64encode(bytes) ==
    LET n == Len(bytes) IN
    IF n = 0 THEN <<>>
    ELSE IF n = 1 THEN
        <<B64Char(bytes[1] \div 4), B64Char((bytes[1] % 4) * 16), B64Pad, B64Pad>>
    ELSE IF n = 2 THEN
        <<B64Char(bytes[1] \div 4),
          B64Char((bytes[1] % 4) * 16 + bytes[2] \div 16),
          B64Char((bytes[2] % 16) * 4), B64Pad>>
    ELSE
        <<B64Char(bytes[1] \div 4),
          B64Char((bytes[1] % 4) * 16 + bytes[2] \div 16),
          B64Char((bytes[2] % 16) * 4 + bytes[3] \div 64),
          B64Char(bytes[3] % 64)>> \o b64encode(SubSeq(bytes, 4, n))

(***************************************************************************)
(* tools/drive.py: gdrive_read_file                                        *)
(***************************************************************************)
\* the longest download the upstream serves, in chunks
MaxChunks == 2

\* export_mime_types
ExportMimeTypes ==
    {"application/vnd.google-apps.document",
     "application/vnd.google-apps.spreadsheet",
     "application/vnd.google-apps.presentation",
     "application/vnd.google-apps.drawing"}

\* A bug: every exportable kind is exported to markdown.
ExportTypeAlwaysMarkdown(mime_type) == "text/markdown"

\* export_mime_types[mime_type]
ExportType(mime_type) ==
    CASE mime_type = "application/vnd.google-apps.document" -> "text/markdown"
      [] mime_type = "application/vnd.google-apps.spreadsheet" -> "text/csv"
      [] mime_type = "application/vnd.google-apps.presentation" -> "text/plain"
      [] mime_type = "application/vnd.google-apps.drawing" -> "image/png"

\* the code points of the kinds of file met here
MimeChars(mime_type) ==
    CASE mime_type = "text/plain" ->
            <<116, 101, 120, 116, 47, 112, 108, 97, 105, 110>>
      [] mime_type = "text/csv" ->
            <<116, 101, 120, 116, 47, 99, 115, 118>>
      [] mime_type = "text/markdown" ->
            <<116, 101, 120, 116, 47, 109, 97, 114, 107, 100, 111, 119, 110>>
      [] mime_type = "text" ->
            <<116, 101, 120, 116>>
      [] mime_type = "TEXT/PLAIN" ->
            <<84, 69, 88, 84, 47, 80, 76, 65, 73, 78>>
      [] mime_type = "application/json" ->
            <<97, 112, 112, 108, 105, 99, 97, 116, 105, 111, 110, 47, 106, 115, 111, 110>>
      [] mime_type = "application/pdf" ->
            <<97, 112, 112, 108, 105, 99, 97, 116, 105, 111, 110, 47, 112, 100, 102>>
      [] mime_type = "image/png" ->
            <<105, 109, 97, 103, 101, 47, 112, 110, 103>>
      [] mime_type = "" ->
            <<>>
      [] mime_type = "application/vnd.google-apps.document" ->
            <<97, 112, 112, 108, 105, 99, 97, 116, 105, 111, 110, 47, 118, 110, 100, 46, 103, 111, 111, 103, 108, 101, 45, 97, 112, 112, 115, 46, 100, 111, 99, 117, 109, 101, 110, 116>>
      [] mime_type = "application/vnd.google-apps.spreadsheet" ->
            <<97, 112, 112, 108, 105, 99, 97, 116, 105, 111, 110, 47, 118, 110, 100, 46, 103, 111, 111, 103, 108, 101, 45, 97, 112, 112, 115, 46, 115, 112, 114, 101, 97, 100, 115, 104, 101, 101, 116>>
      [] mime_type = "application/vnd.google-apps.presentation" ->
            <<97, 112, 112, 108, 105, 99, 97, 116, 105, 111, 110, 47, 118, 110, 100, 46, 103, 111, 111, 103, 108, 101, 45, 97, 112, 112, 115, 46, 112, 114, 101, 115, 101, 110, 116, 97, 116, 105, 111, 110>>
      [] mime_type = "application/vnd.google-apps.drawing" ->
            <<97, 112, 112, 108, 105, 99, 97, 116, 105, 111, 110, 47, 118, 110, 100, 46, 103, 111, 111, 103, 108, 101, 45, 97, 112, 112, 115, 46, 100, 114, 97, 119, 105, 110, 103>>

\* "text/"
TextSlash == <<116, 101, 120, 116, 47>>

\* mime_type.startswith('text/')
StartsWithText(mime_type) ==
    LET c == MimeChars(mime_type)
    IN Len(c) >= Len(TextSlash) /\ SubSeq(c, 1, Len(TextSlash)) = TextSlash

\* A bug: the exported kinds are left out of the test, so an exported
\* document comes back as base64.
TextKindNoExport(mime_type) ==
    StartsWithText(mime_type) \/ mime_type = "application/json"

\* the first branch of the normaliser: text kinds, JSON and exported kinds
TextKind(mime_type) ==
    \/ StartsWithText(mime_type)
    \/ mime_type = "application/json"
    \/ mime_type \in ExportMimeTypes

FileIds == {"file-1"}

\* files().get(fileId=file_id).execute(): the kinds of file met here, and
\* the answer that lacks every field
MetadataResponses ==
    {[kind |-> "ok", body |-> [mimeType |-> m, name |-> "notes"]] :
        m \in {"text/plain", "image/png"} \cup ExportMimeTypes}
    \cup {[kind |-> "ok", body |-> [empty |-> TRUE]]}

\* "hi", a byte that no UTF-8 text holds, and the two bytes of U+00E9, one
\* to a chunk
Chunks == {<<104, 105>>, <<255>>, <<195>>, <<169>>}

\* downloader.next_chunk(): a chunk arrives, the k-th being the last at the
\* latest when k = MaxChunks
ChunkResponses(k) ==
    {[kind |-> "ok", data |-> c, done |-> d] :
        c \in Chunks, d \in (IF k < MaxChunks THEN BOOLEAN ELSE {TRUE})}

gdrive_read_file_begin(a) ==
    LET r == Entered("gdrive_read_file", a)
    IN IF ServiceMissing(drive_service) THEN Return(r, NotInitialized)
       ELSE [r EXCEPT !.pc = "get"]

\* the metadata, then the media request: export or plain download
gdrive_read_file_get(r, o) ==
    LET called == [r EXCEPT !.calls = Append(@, [api |-> "files.get",
                                                 fileId |-> r.args.file_id])]
    IN IF o.kind # "ok" THEN CatchFormatted(called, "Failed to read file", o)
       ELSE
         LET mime_type == IF "mimeType" \in DOMAIN o.body THEN o.body.mimeType ELSE ""
             file_name == IF "name" \in DOMAIN o.body THEN o.body.name ELSE "Unknown"
             request == IF mime_type \in ExportMimeTypes
                        THEN [api |-> "files.export_media", fileId |-> r.args.file_id,
                              mimeType |-> ExportType(mime_type)]
                        ELSE [api |-> "files.get_media", fileId |-> r.args.file_id]
         IN [called EXCEPT !.pc = "chunk",
                           !.last = o,
                           !.loc = [mime_type |-> mime_type, file_name |-> file_name,
                                    request |-> request, file_buffer |-> <<>>,
                                    chunks |-> 0]]

\* the try block that decodes or encodes content_bytes
Normalize(r, content_bytes) ==
    LET base == [file_id |-> r.args.file_id, name |-> r.loc.file_name,
                 mime_type |-> r.loc.mime_type]
        decoded == Utf8Decode(content_bytes)
        binary == base @@ [content |-> b64encode(content_bytes), encoding |-> "base64"]
    IN IF TextKind(r.loc.mime_type)
       THEN IF decoded.raised THEN binary
            ELSE base @@ [content |-> decoded.text, encoding |-> "utf-8"]
       ELSE binary

\* A bug: the buffer is read where the download left its position, at
\* the end.
ReadBufferNoSeek(file_buffer) == <<>>

\* file_buffer.seek(0); content_bytes = file_buffer.read()
ReadBuffer(file_buffer) == file_buffer

\* A bug: the loop makes one pass and no more, whatever next_chunk reports.
gdrive_read_file_chunk_OnePass(r, o) ==
    LET called == [r EXCEPT !.calls = Append(@, r.loc.request),
                            !.loc.chunks = @ + 1]
    IN IF o.kind # "ok" THEN CatchFormatted(called, "Failed to read file", o)
       ELSE LET got == [called EXCEPT !.last = o,
                                      !.rcvd = Append(@, o.data),
                                      !.loc.file_buffer = @ \o o.data]
            IN Return(got, Normalize(got, ReadBuffer(got.loc.file_buffer)))

\* one pass of `while not done`: the downloader writes the chunk it got at
\* the end of file_buffer
gdrive_read_file_chunk(r, o) ==
    LET called == [r EXCEPT !.calls = Append(@, r.loc.request),
                            !.loc.chunks = @ + 1]
    IN IF o.kind # "ok" THEN CatchFormatted(called, "Failed to read file", o)
       ELSE LET got == [called EXCEPT !.last = o,
                                      !.rcvd = Append(@, o.data),
                                      !.loc.file_buffer = @ \o o.data]
            IN IF o.done THEN Return(got, Normalize(got, ReadBuffer(got.loc.file_buffer)))
               ELSE got

Invoke_gdrive_read_file(s) ==
    /\ inv[s].pc = "idle"
    /\ \E a \in [file_id : FileIds] :
          Advance(s, gdrive_read_file_begin(a))
    /\ UNCHANGED <<drive_service, FOLDER_ID, sheets_tools, cls, norm, upstream>>

Step_gdrive_read_file(s) ==
    /\ inv[s].op = "gdrive_read_file"
    /\ \/ /\ inv[s].pc = "get"
          /\ \E o \in MetadataResponses \cup Failures :
                Advance(s, gdrive_read_file_get(inv[s], o))
       \/ /\ inv[s].pc = "chunk"
          /\ \E o \in ChunkResponses(inv[s].loc.chunks + 1) \cup Failures :
                Advance(s, gdrive_read_file_chunk(inv[s], o))
    /\ UNCHANGED <<drive_service, FOLDER_ID, sheets_tools, cls, norm, upstream>>

(***************************************************************************)
(* resources/drive.py: the resource gdrive:///{file_id}                    *)
(***************************************************************************)
\* the tools server.py has registered when it registers the resources
RegisteredTools == {"gdrive_search", "gdrive_read_file"}

\* "[Binary file - Base64 encoded]\n"
BinaryMarker ==
    <<91, 66, 105, 110, 97, 114, 121, 32, 102, 105, 108, 101, 32, 45, 32, 66, 97, 115, 101, 54, 52, 32, 101, 110, 99, 111, 100, 101, 100, 93, 10>>

\* A bug: the encoded payload is returned bare.
read_drive_resource_NoMarker(result) ==
    IF "error" \in DOMAIN result THEN Raised(result.error)
    ELSE [text |-> GetOr(result, "content", <<>>)]

\* what read_drive_resource makes of the envelope of the tool: a raised
\* RuntimeError or the text it returns
read_drive_resource(result) ==
    IF "error" \in DOMAIN result THEN Raised(result.error)
    ELSE LET content == GetOr(result, "content", <<>>)
             encoding == GetOr(result, "encoding", "utf-8")
         IN IF encoding = "base64" THEN [text |-> BinaryMarker \o content]
            ELSE [text |-> content]

\* the resource read around the tool invocation r it awaits: when the tool
\* returns, its envelope is turned into the output of the resource
Resolve(r) ==
    IF r.pc = "done"
    THEN [r EXCEPT !.result = read_drive_resource(r.result)]
         @@ [tool_result |-> r.result]
    ELSE r

\* read_file_for_resource: the registered tools are searched for
\* gdrive_read_file, which is invoked with the file_id of the resource
read_drive_resource_begin(file_id) ==
    IF "gdrive_read_file" \notin RegisteredTools
    THEN Return(Entered("read_drive_resource", [file_id |-> file_id])
                    @@ [resource |-> file_id, invoked |-> <<>>],
                Raised("gdrive_read_file tool not found"))
    ELSE Resolve([gdrive_read_file_begin([file_id |-> file_id])
                      EXCEPT !.op = "read_drive_resource"]
                 @@ [resource |-> file_id,
                     invoked |-> <<[tool |-> "gdrive_read_file",
                                    file_id |-> file_id]>>])

Invoke_read_drive_resource(s) ==
    /\ inv[s].pc = "idle"
    /\ \E file_id \in FileIds :
          Advance(s, read_drive_resource_begin(file_id))
    /\ UNCHANGED <<drive_service, FOLDER_ID, sheets_tools, cls, norm, upstream>>

\* the steps of the awaited tool
Step_read_drive_resource(s) ==
    /\ inv[s].op = "read_drive_resource"
    /\ \/ /\ inv[s].pc = "get"
          /\ \E o \in MetadataResponses \cup Failures :
                Advance(s, Resolve(gdrive_read_file_get(inv[s], o)))
       \/ /\ inv[s].pc = "chunk"
          /\ \E o \in ChunkResponses(inv[s].loc.chunks + 1) \cup Failures :
                Advance(s, Resolve(gdrive_read_file_chunk(inv[s], o)))
    /\ UNCHANGED <<drive_service, FOLDER_ID, sheets_tools, cls, norm, upstream>>

(***************************************************************************)
(* The Content Normalizer as a program of its own: a content and a kind    *)
(* are drawn, then normalized.                                             *)
(***************************************************************************)
\* the longest content drawn, in bytes
MaxContentLen == 3

\* "h", the two bytes of U+00E9, and a byte that no UTF-8 text holds
ContentBytes == {104, 195, 169, 255}

ContentsDrawn == UNION {[1..n -> ContentBytes] : n \in 0..MaxContentLen}

\* the kinds a file may declare
KindsDrawn ==
    {"text/plain", "text/csv", "text/markdown", "text", "TEXT/PLAIN",
     "application/json", "application/pdf", "image/png", ""}
    \cup ExportMimeTypes

InitNormalizer ==
    /\ drive_service = DriveHandle
    /\ FOLDER_ID = None
    /\ sheets_tools = [pc |-> "start", sheets_service |-> None, raised |-> None]
    /\ inv = <<>>
    /\ returned = [pc |-> "none"]
    /\ cls = [pc |-> "idle", error |-> [none |-> TRUE], error_details |-> [none |-> TRUE]]
    /\ norm \in [pc : {"input"}, content_bytes : ContentsDrawn, mime_type : KindsDrawn,
                 result : {[none |-> TRUE]}]
    /\ upstream = <<>>

\* the normalizer applied to the content of file-1, named "notes"
NormalizeContent ==
    /\ norm.pc = "input"
    /\ norm' = [norm EXCEPT
                   !.pc = "normalized",
                   !.result = Normalize([args |-> [file_id |-> "file-1"],
                                         loc |-> [file_name |-> "notes",
                                                  mime_type |-> norm.mime_type]],
                                        norm.content_bytes)]
    /\ UNCHANGED <<drive_service, FOLDER_ID, sheets_tools, inv, returned, cls, upstream>>

NextNormalizer == NormalizeContent

SpecNormalizer == InitNormalizer /\ [][NextNormalizer]_vars

(***************************************************************************)
(* tools/sheets.py: register_sheets_tools                                  *)
(***************************************************************************)
\* the sheets tools before register_sheets_tools has run
Unregistered == [pc |-> "start", sheets_service |-> None, raised |-> None]

\* creds = drive_service._http.credentials on a handle that is None
NoHttpAttribute == "'NoneType' object has no attribute '_http'"

\* register_sheets_tools(mcp, service): the sheets handle is built from the
\* credentials of the drive handle and the eight tools are registered
\* after it; on an absent drive handle the first line raises and no tool
\* is registered
register_sheets_tools_body(service) ==
    IF service = None
    THEN [pc |-> "raised", sheets_service |-> None, raised |-> NoHttpAttribute]
    ELSE [pc |-> "registered", sheets_service |-> "sheets_v4", raised |-> None]

register_sheets_tools ==
    /\ sheets_tools.pc = "start"
    /\ sheets_tools' = register_sheets_tools_body(drive_service)
    /\ UNCHANGED <<drive_service, FOLDER_ID, inv, returned, cls, norm, upstream>>

\* the closure variable the sheets tools share
sheets_service == sheets_tools.sheets_service

\* a sheets tool can be invoked once it is registered
SheetsRegistered == sheets_tools.pc = "registered"

SpreadsheetIds == {"sheet-1"}

\* an upstream answer whose fields the handler reads with .get, and the
\* answer that lacks every field
Answers(body) ==
    {[kind |-> "ok", body |-> body], [kind |-> "ok", body |-> [empty |-> TRUE]]}

\* list.index(x), zero-based
IndexOf(seq, x) == (CHOOSE i \in 1..Len(seq) :
                        seq[i] = x /\ \A j \in 1..(i - 1) : seq[j] # x) - 1

Contains(seq, x) == \E i \in 1..Len(seq) : seq[i] = x

(***************************************************************************)
(* tools/sheets.py: create_expense_sheet                                   *)
(***************************************************************************)
DefaultCategories ==
    <<"Food & Dining", "Transportation", "Shopping", "Bills & Utilities",
      "Healthcare", "Entertainment", "Travel", "Education", "Personal Care",
      "Other">>

DefaultHeaders ==
    <<"Date", "Description", "Category", "Amount", "Payment Method", "Notes", "Tags">>

\* an optional list argument: left out (None), or given
Absent == [given |-> FALSE]

Given(value) == [given |-> TRUE, value |-> value]

CategoryArgs == {Absent, Given(<<"Rent">>)}

HeaderArgs == {Absent, Given(<<"Amount", "Memo">>), Given(<<"Memo", "Category", "Date">>)}

\* json.dumps(categories): the serialised text of the list
JsonDumps(value) == [json |-> value]

\* A bug: the columns are the ones of the default headers (C, D and A),
\* wherever the headers given have them.
SetupRequestsFixedColumns(initial_headers, categories) ==
    <<[kind |-> "updateCells", values |-> initial_headers, rowIndex |-> 0,
       columnIndex |-> 0],
      [kind |-> "repeatCell", format |-> "header", startRowIndex |-> 0,
       endRowIndex |-> 1]>>
    \o (IF Contains(initial_headers, "Category")
        THEN <<[kind |-> "setDataValidation", values |-> categories,
                startRowIndex |-> 1, startColumnIndex |-> 2, endColumnIndex |-> 3]>>
        ELSE <<>>)
    \o (IF Contains(initial_headers, "Amount")
        THEN <<[kind |-> "repeatCell", format |-> "CURRENCY", startRowIndex |-> 1,
                startColumnIndex |-> 3, endColumnIndex |-> 4]>>
        ELSE <<>>)
    \o (IF Contains(initial_headers, "Date")
        THEN <<[kind |-> "repeatCell", format |-> "DATE", startRowIndex |-> 1,
                startColumnIndex |-> 0, endColumnIndex |-> 1]>>
        ELSE <<>>)
    \o <<[kind |-> "autoResizeDimensions", startIndex |-> 0,
          endIndex |-> Len(initial_headers)],
         [kind |-> "createDeveloperMetadata", metadataKey |-> "sheet_type",
          metadataValue |-> "expense_tracker", location |-> "spreadsheet",
          visibility |-> "DOCUMENT"],
         [kind |-> "createDeveloperMetadata", metadataKey |-> "expense_categories",
          metadataValue |-> JsonDumps(categories), location |-> "spreadsheet",
          visibility |-> "DOCUMENT"]>>

\* the setup requests, in the order they are appended
SetupRequests(initial_headers, categories) ==
    <<[kind |-> "updateCells", values |-> initial_headers, rowIndex |-> 0,
       columnIndex |-> 0],
      [kind |-> "repeatCell", format |-> "header", startRowIndex |-> 0,
       endRowIndex |-> 1]>>
    \o (IF Contains(initial_headers, "Category")
        THEN <<[kind |-> "setDataValidation", values |-> categories,
                startRowIndex |-> 1,
                startColumnIndex |-> IndexOf(initial_headers, "Category"),
                endColumnIndex |-> IndexOf(initial_headers, "Category") + 1]>>
        ELSE <<>>)
    \o (IF Contains(initial_headers, "Amount")
        THEN <<[kind |-> "repeatCell", format |-> "CURRENCY", startRowIndex |-> 1,
                startColumnIndex |-> IndexOf(initial_headers, "Amount"),
                endColumnIndex |-> IndexOf(initial_headers, "Amount") + 1]>>
        ELSE <<>>)
    \o (IF Contains(initial_headers, "Date")
        THEN <<[kind |-> "repeatCell", format |-> "DATE", startRowIndex |-> 1,
                startColumnIndex |-> IndexOf(initial_headers, "Date"),
                endColumnIndex |-> IndexOf(initial_headers, "Date") + 1]>>
        ELSE <<>>)
    \o <<[kind |-> "autoResizeDimensions", startIndex |-> 0,
          endIndex |-> Len(initial_headers)],
         [kind |-> "createDeveloperMetadata", metadataKey |-> "sheet_type",
          metadataValue |-> "expense_tracker", location |-> "spreadsheet",
          visibility |-> "DOCUMENT"],
         [kind |-> "createDeveloperMetadata", metadataKey |-> "expense_categories",
          metadataValue |-> JsonDumps(categories), location |-> "spreadsheet",
          visibility |-> "DOCUMENT"]>>

\* the defaults, the target folder, then the first call: drive files().create
create_expense_sheet_begin(a) ==
    LET r == Entered("create_expense_sheet", a)
        categories == IF a.categories.given THEN a.categories.value
                      ELSE DefaultCategories
        initial_headers == IF a.initial_headers.given THEN a.initial_headers.value
                           ELSE DefaultHeaders
        target_folder == OrElse(a.folder_id, FOLDER_ID)
    IN [r EXCEPT !.pc = "create",
                      !.loc = [categories |-> categories,
                               initial_headers |-> initial_headers,
                               target_folder |-> target_folder]]

create_expense_sheet_create(r, o) ==
    LET file_metadata ==
            IF Truthy(r.loc.target_folder)
            THEN [name |-> r.args.name,
                  mimeType |-> "application/vnd.google-apps.spreadsheet",
                  parents |-> <<r.loc.target_folder>>]
            ELSE [name |-> r.args.name,
                  mimeType |-> "application/vnd.google-apps.spreadsheet"]
        called == [r EXCEPT !.calls = Append(@, [api |-> "files.create",
                                                 body |-> file_metadata])]
    IN IF o.kind # "ok" THEN CatchFormatted(called, "Failed to create sheet", o)
       ELSE IF "id" \notin DOMAIN o.body
       THEN [Return(called, Unexpected("'id'")) EXCEPT !.last = o]
       ELSE [called EXCEPT !.pc = "batch",
                           !.last = o,
                           !.loc = r.loc @@
                                   [spreadsheet_id |-> o.body.id,
                                    webViewLink |-> Get(o.body, "webViewLink"),
                                    requests |-> SetupRequests(r.loc.initial_headers,
                                                               r.loc.categories)]]

create_expense_sheet_batch(r, o) ==
    LET called == [r EXCEPT !.calls = Append(@, [api |-> "spreadsheets.batchUpdate",
                                                 spreadsheetId |-> r.loc.spreadsheet_id,
                                                 requests |-> r.loc.requests])]
    IN IF o.kind # "ok" THEN CatchFormatted(called, "Failed to create sheet", o)
       ELSE Return([called EXCEPT !.last = o],
                   [success |-> TRUE,
                    sheet |-> [id |-> r.loc.spreadsheet_id,
                               name |-> r.args.name,
                               webViewLink |-> r.loc.webViewLink,
                               headers |-> r.loc.initial_headers,
                               categories |-> r.loc.categories,
                               setup_complete |-> TRUE]])

\* the most spreadsheets created upstream in one run
MaxSheets == 2

\* the identifier the upstream gives the n-th spreadsheet it creates
SheetId(n) == "sheet-" \o ToString(n)

\* files().create(...).execute() answered: a blank spreadsheet exists
Created(sheets) == Append(sheets, [setup |-> FALSE])

\* spreadsheets().batchUpdate(...).execute() answered: the requests of the
\* batch are applied to the spreadsheet, all of them
SetUp(sheets, spreadsheet_id) ==
    [n \in 1..Len(sheets) |->
        IF SheetId(n) = spreadsheet_id THEN [setup |-> TRUE] ELSE sheets[n]]

Invoke_create_expense_sheet(s) ==
    /\ SheetsRegistered
    /\ inv[s].pc = "idle"
    /\ Len(upstream) < MaxSheets
    /\ \E a \in [name : SheetNames, folder_id : {None, "folder-A"},
                 categories : CategoryArgs, initial_headers : HeaderArgs] :
          Advance(s, create_expense_sheet_begin(a))
    /\ UNCHANGED <<drive_service, FOLDER_ID, sheets_tools, cls, norm, upstream>>

Step_create_expense_sheet(s) ==
    /\ inv[s].op = "create_expense_sheet"
    /\ \/ /\ inv[s].pc = "create"
          /\ \E o \in Answers([id |-> SheetId(Len(upstream) + 1),
                               webViewLink |-> "https://docs/"
                                               \o SheetId(Len(upstream) + 1)])
                     \cup Failures :
                /\ Advance(s, create_expense_sheet_create(inv[s], o))
                /\ upstream' = IF o.kind = "ok" THEN Created(upstream) ELSE upstream
       \/ /\ inv[s].pc = "batch"
          /\ \E o \in {[kind |-> "ok", body |-> [replies |-> <<>>]]} \cup Failures :
                /\ Advance(s, create_expense_sheet_batch(inv[s], o))
                /\ upstream' = IF o.kind = "ok"
                               THEN SetUp(upstream, inv[s].loc.spreadsheet_id)
                               ELSE upstream
    /\ UNCHANGED <<drive_service, FOLDER_ID, sheets_tools, cls, norm>>

(***************************************************************************)
(* tools/sheets.py: the single-call tools                                  *)
(***************************************************************************)
\* the code points of the texts the handlers take apart
Codes(text) ==
    CASE text = "C" -> <<67>>
      [] text = "c" -> <<99>>
      [] text = "" -> <<>>
      [] text = "AB" -> <<65, 66>>
      [] text = "2024-01-01" -> <<50, 48, 50, 52, 45, 48, 49, 45, 48, 49>>
      [] text = "2024-01-02" -> <<50, 48, 50, 52, 45, 48, 49, 45, 48, 50>>
      [] text = "2024-01-31" -> <<50, 48, 50, 52, 45, 48, 49, 45, 51, 49>>
      [] text = "bad" -> <<98, 97, 100>>
      [] text = "4.5" -> <<52, 46, 53>>
      [] text = "2024-01-02:2024-01-31" -> <<50, 48, 50, 52, 45, 48, 49, 45, 48, 50, 58, 50, 48, 50, 52, 45, 48, 49, 45, 51, 49>>
      [] text = "2024-01-02:2024-01-02" -> <<50, 48, 50, 52, 45, 48, 49, 45, 48, 50, 58, 50, 48, 50, 52, 45, 48, 49, 45, 48, 50>>
      [] text = "2024" -> <<50, 48, 50, 52>>
      [] text = "2024-1-5" -> <<50, 48, 50, 52, 45, 49, 45, 53>>
      [] text = "2024-02-01" -> <<50, 48, 50, 52, 45, 48, 50, 45, 48, 49>>
      [] text = "1:2:3" -> <<49, 58, 50, 58, 51>>

\* a spreadsheet cell as UNFORMATTED_VALUE renders it: a number (in
\* thousandths) or a text
NumCell(thousandths) == [t |-> "num", num |-> thousandths]

StrCell(text) == [t |-> "str", str |-> text]

\* max(len(row) for row in values) if values else 0
Columns(values) ==
    IF values = <<>> THEN 0
    ELSE CHOOSE n \in {Len(values[i]) : i \in 1..Len(values)} :
            \A i \in 1..Len(values) : Len(values[i]) <= n

SomeCells == <<<<StrCell("a"), StrCell("b")>>, <<NumCell(1000)>>>>

read_sheet_cells_begin(a) ==
    LET r == Entered("read_sheet_cells", a)
    IN [r EXCEPT !.pc = "values"]

read_sheet_cells_values(r, o) ==
    LET called == [r EXCEPT !.calls = Append(@, [api |-> "values.get",
                                                 spreadsheetId |-> r.args.spreadsheet_id,
                                                 range |-> r.args.range_notation,
                                                 valueRenderOption |-> "UNFORMATTED_VALUE"])]
    IN IF o.kind # "ok" THEN CatchFormatted(called, "Failed to read sheet", o)
       ELSE [called EXCEPT !.pc = "get", !.last = o,
                           !.loc = [values |-> GetOr(o.body, "values", <<>>)]]

read_sheet_cells_get(r, o) ==
    LET called == [r EXCEPT !.calls = Append(@, [api |-> "spreadsheets.get",
                                                 spreadsheetId |-> r.args.spreadsheet_id])]
        values == r.loc.values
    IN IF o.kind # "ok" THEN CatchFormatted(called, "Failed to read sheet", o)
       ELSE IF "properties" \notin DOMAIN o.body
       THEN [Return(called, Unexpected("'properties'")) EXCEPT !.last = o]
       ELSE Return([called EXCEPT !.last = o],
                   [spreadsheet_id |-> r.args.spreadsheet_id,
                    spreadsheet_title |-> o.body.properties.title,
                    range |-> r.args.range_notation,
                    values |-> values,
                    rows |-> Len(values),
                    columns |-> Columns(values)])

update_sheet_cells_begin(a) ==
    LET r == Entered("update_sheet_cells", a)
    IN [r EXCEPT !.pc = "update"]

update_sheet_cells_update(r, o) ==
    LET called == [r EXCEPT !.calls = Append(@, [api |-> "values.update",
                                                 spreadsheetId |-> r.args.spreadsheet_id,
                                                 range |-> r.args.range_notation,
                                                 valueInputOption |-> r.args.value_input_option,
                                                 body |-> [values |-> r.args.values]])]
    IN IF o.kind # "ok" THEN CatchFormatted(called, "Failed to update sheet", o)
       ELSE Return([called EXCEPT !.last = o],
                   [success |-> TRUE,
                    updated_cells |-> GetOr(o.body, "updatedCells", 0),
                    updated_rows |-> GetOr(o.body, "updatedRows", 0),
                    updated_columns |-> GetOr(o.body, "updatedColumns", 0),
                    updated_range |-> GetOr(o.body, "updatedRange", "")])

append_expense_row_begin(a) ==
    LET r == Entered("append_expense_row", a)
        row_data == <<StrCell(a.date), StrCell(a.description), StrCell(a.category),
                      NumCell(a.amount), StrCell(OrElse(a.payment_method, "")),
                      StrCell(OrElse(a.notes, "")), StrCell(OrElse(a.tags, ""))>>
    IN [r EXCEPT !.pc = "append", !.loc = [row_data |-> row_data]]

append_expense_row_append(r, o) ==
    LET called == [r EXCEPT !.calls = Append(@, [api |-> "values.append",
                                                 spreadsheetId |-> r.args.spreadsheet_id,
                                                 range |-> "A:G",
                                                 valueInputOption |-> "USER_ENTERED",
                                                 insertDataOption |-> "INSERT_ROWS",
                                                 body |-> [values |-> <<r.loc.row_data>>]])]
        updates == GetOr(o.body, "updates", [empty |-> TRUE])
    IN IF o.kind # "ok" THEN CatchFormatted(called, "Failed to append expense", o)
       ELSE Return([called EXCEPT !.last = o],
                   [success |-> TRUE,
                    updated_range |-> GetOr(updates, "updatedRange", ""),
                    updated_rows |-> GetOr(updates, "updatedRows", 0),
                    expense |-> [date |-> r.args.date,
                                 description |-> r.args.description,
                                 category |-> r.args.category,
                                 amount |-> r.args.amount]])

set_sheet_metadata_begin(a) ==
    LET r == Entered("set_sheet_metadata", a)
        location == IF a.location_type = "spreadsheet" THEN [spreadsheet |-> TRUE]
                    ELSE [sheetId |-> 0]
        request == [kind |-> "createDeveloperMetadata", metadataKey |-> a.key,
                    metadataValue |-> a.value, location |-> location,
                    visibility |-> "DOCUMENT"]
    IN [r EXCEPT !.pc = "batch", !.loc = [request |-> request]]

set_sheet_metadata_batch(r, o) ==
    LET called == [r EXCEPT !.calls = Append(@, [api |-> "spreadsheets.batchUpdate",
                                                 spreadsheetId |-> r.args.spreadsheet_id,
                                                 requests |-> <<r.loc.request>>])]
    IN IF o.kind # "ok" THEN CatchFormatted(called, "Failed to set metadata", o)
       ELSE Return([called EXCEPT !.last = o],
                   [success |-> TRUE,
                    metadata_key |-> r.args.key,
                    metadata_value |-> r.args.value,
                    location_type |-> r.args.location_type])

get_sheet_metadata_begin(a) ==
    LET r == Entered("get_sheet_metadata", a)
        request_body == IF Truthy(a.key)
                        THEN [dataFilters |-> <<[metadataKey |-> a.key]>>]
                        ELSE [empty |-> TRUE]
    IN [r EXCEPT !.pc = "search", !.loc = [request_body |-> request_body]]

\* the entry of metadata_items made from one matched item
MetadataItem(item) ==
    LET metadata == GetOr(item, "developerMetadata", [empty |-> TRUE])
    IN [key |-> Get(metadata, "metadataKey"),
        value |-> Get(metadata, "metadataValue"),
        location |-> GetOr(metadata, "location", [empty |-> TRUE]),
        id |-> Get(metadata, "metadataId")]

get_sheet_metadata_search(r, o) ==
    LET called == [r EXCEPT !.calls = Append(@, [api |-> "developerMetadata.search",
                                                 spreadsheetId |-> r.args.spreadsheet_id,
                                                 body |-> r.loc.request_body])]
        matched == GetOr(o.body, "matchedDeveloperMetadata", <<>>)
        metadata_items == [i \in 1..Len(matched) |-> MetadataItem(matched[i])]
    IN IF o.kind # "ok" THEN CatchFormatted(called, "Failed to get metadata", o)
       ELSE Return([called EXCEPT !.last = o],
                   [spreadsheet_id |-> r.args.spreadsheet_id,
                    metadata |-> metadata_items,
                    count |-> Len(metadata_items)])

\* "A"
OrdA == 65

\* str.upper() of one code point
Upper(c) == IF 97 <= c /\ c <= 122 THEN c - 32 ELSE c

\* ord(column.upper()) - ord('A'): ord raises unless the text is one
\* character long
ColumnIndex(column) ==
    LET text == Codes(column)
    IN IF Len(text) # 1
       THEN Raised("ord() expected a character, but string of length "
                   \o ToString(Len(text)) \o " found")
       ELSE [raised |-> None, col_index |-> Upper(text[1]) - OrdA]

add_category_validation_begin(a) ==
    LET r == Entered("add_category_validation", a)
        col == ColumnIndex(a.column)
    IN IF IsRaised(col) THEN Return(r, Unexpected(col.raised))
       ELSE [r EXCEPT !.pc = "batch",
                      !.loc = [request |->
                          [kind |-> "setDataValidation",
                           startRowIndex |-> a.start_row - 1,
                           startColumnIndex |-> col.col_index,
                           endColumnIndex |-> col.col_index + 1,
                           values |-> a.categories,
                           strict |-> TRUE]]]

add_category_validation_batch(r, o) ==
    LET called == [r EXCEPT !.calls = Append(@, [api |-> "spreadsheets.batchUpdate",
                                                 spreadsheetId |-> r.args.spreadsheet_id,
                                                 requests |-> <<r.loc.request>>])]
    IN IF o.kind # "ok" THEN CatchFormatted(called, "Failed to add validation", o)
       ELSE Return([called EXCEPT !.last = o],
                   [success |-> TRUE,
                    column |-> r.args.column,
                    categories |-> r.args.categories,
                    start_row |-> r.args.start_row])

Invoke_read_sheet_cells(s) ==
    /\ SheetsRegistered
    /\ inv[s].pc = "idle"
    /\ \E a \in [spreadsheet_id : SpreadsheetIds, range_notation : {"A1:Z1000"}] :
          Advance(s, read_sheet_cells_begin(a))
    /\ UNCHANGED <<drive_service, FOLDER_ID, sheets_tools, cls, norm, upstream>>

Step_read_sheet_cells(s) ==
    /\ inv[s].op = "read_sheet_cells"
    /\ \/ /\ inv[s].pc = "values"
          /\ \E o \in Answers([values |-> SomeCells]) \cup Failures :
                Advance(s, read_sheet_cells_values(inv[s], o))
       \/ /\ inv[s].pc = "get"
          /\ \E o \in Answers([properties |-> [title |-> "Budget"]]) \cup Failures :
                Advance(s, read_sheet_cells_get(inv[s], o))
    /\ UNCHANGED <<drive_service, FOLDER_ID, sheets_tools, cls, norm, upstream>>

Invoke_update_sheet_cells(s) ==
    /\ SheetsRegistered
    /\ inv[s].pc = "idle"
    /\ \E a \in [spreadsheet_id : SpreadsheetIds, range_notation : {"A2:B2"},
                 values : {SomeCells}, value_input_option : {"USER_ENTERED", "RAW"}] :
          Advance(s, update_sheet_cells_begin(a))
    /\ UNCHANGED <<drive_service, FOLDER_ID, sheets_tools, cls, norm, upstream>>

Step_update_sheet_cells(s) ==
    /\ inv[s].op = "update_sheet_cells"
    /\ inv[s].pc = "update"
    /\ \E o \in Answers([updatedCells |-> 3, updatedRows |-> 2, updatedColumns |-> 2,
                         updatedRange |-> "Sheet1!A2:B3"]) \cup Failures :
          Advance(s, update_sheet_cells_update(inv[s], o))
    /\ UNCHANGED <<drive_service, FOLDER_ID, sheets_tools, cls, norm, upstream>>

Invoke_append_expense_row(s) ==
    /\ SheetsRegistered
    /\ inv[s].pc = "idle"
    /\ \E a \in [spreadsheet_id : SpreadsheetIds, date : {"2024-01-01"},
                 description : {"Coffee"}, category : {"Food & Dining"},
                 amount : {4500}, payment_method : {None, "", "cash"},
                 notes : {None}, tags : {None, "work"}] :
          Advance(s, append_expense_row_begin(a))
    /\ UNCHANGED <<drive_service, FOLDER_ID, sheets_tools, cls, norm, upstream>>

Step_append_expense_row(s) ==
    /\ inv[s].op = "append_expense_row"
    /\ inv[s].pc = "append"
    /\ \E o \in Answers([updates |-> [updatedRange |-> "Sheet1!A2:G2",
                                      updatedRows |-> 1]]) \cup Failures :
          Advance(s, append_expense_row_append(inv[s], o))
    /\ UNCHANGED <<drive_service, FOLDER_ID, sheets_tools, cls, norm, upstream>>

Invoke_set_sheet_metadata(s) ==
    /\ SheetsRegistered
    /\ inv[s].pc = "idle"
    /\ \E a \in [spreadsheet_id : SpreadsheetIds, key : {"budget_limit"},
                 value : {"500"}, location_type : {"spreadsheet", "sheet"}] :
          Advance(s, set_sheet_metadata_begin(a))
    /\ UNCHANGED <<drive_service, FOLDER_ID, sheets_tools, cls, norm, upstream>>

Step_set_sheet_metadata(s) ==
    /\ inv[s].op = "set_sheet_metadata"
    /\ inv[s].pc = "batch"
    /\ \E o \in {[kind |-> "ok", body |-> [replies |-> <<>>]]} \cup Failures :
          Advance(s, set_sheet_metadata_batch(inv[s], o))
    /\ UNCHANGED <<drive_service, FOLDER_ID, sheets_tools, cls, norm, upstream>>

Invoke_get_sheet_metadata(s) ==
    /\ SheetsRegistered
    /\ inv[s].pc = "idle"
    /\ \E a \in [spreadsheet_id : SpreadsheetIds, key : {None, "", "sheet_type"}] :
          Advance(s, get_sheet_metadata_begin(a))
    /\ UNCHANGED <<drive_service, FOLDER_ID, sheets_tools, cls, norm, upstream>>

Step_get_sheet_metadata(s) ==
    /\ inv[s].op = "get_sheet_metadata"
    /\ inv[s].pc = "search"
    /\ \E o \in Answers([matchedDeveloperMetadata |->
                            <<[developerMetadata |->
                                  [metadataKey |-> "sheet_type",
                                   metadataValue |-> "expense_tracker",
                                   location |-> [spreadsheet |-> TRUE],
                                   metadataId |-> 7]],
                              [empty |-> TRUE]>>]) \cup Failures :
          Advance(s, get_sheet_metadata_search(inv[s], o))
    /\ UNCHANGED <<drive_service, FOLDER_ID, sheets_tools, cls, norm, upstream>>

Invoke_add_category_validation(s) ==
    /\ SheetsRegistered
    /\ inv[s].pc = "idle"
    /\ \E a \in [spreadsheet_id : SpreadsheetIds, column : {"C", "c", "", "AB"},
                 categories : {<<"Rent", "Food">>}, start_row : {2}] :
          Advance(s, add_category_validation_begin(a))
    /\ UNCHANGED <<drive_service, FOLDER_ID, sheets_tools, cls, norm, upstream>>

Step_add_category_validation(s) ==
    /\ inv[s].op = "add_category_validation"
    /\ inv[s].pc = "batch"
    /\ \E o \in {[kind |-> "ok", body |-> [replies |-> <<>>]]} \cup Failures :
          Advance(s, add_category_validation_batch(inv[s], o))
    /\ UNCHANGED <<drive_service, FOLDER_ID, sheets_tools, cls, norm, upstream>>

(***************************************************************************)
(* tools/sheets.py: get_expense_summary                                    *)
(***************************************************************************)
\* ":"
Colon == 58

\* "."
Dot == 46

\* "-"
Minus == 45

\* "0"
Zero == 48

IsDigit(c) == Zero <= c /\ c <= Zero + 9

RECURSIVE DigitsValue(_)
\* the number a run of digits spells
DigitsValue(digits) ==
    IF digits = <<>> THEN 0
    ELSE DigitsValue(SubSeq(digits, 1, Len(digits) - 1)) * 10
         + (digits[Len(digits)] - Zero)

\* float(text) for plain decimal notation, in thousandths: an optional
\* sign, digits, an optional point and up to three more digits; any other
\* text raises ValueError
ParseFloat(text) ==
    LET signed == text # <<>> /\ text[1] = Minus
        body == IF signed THEN Tail(text) ELSE text
        points == {i \in 1..Len(body) : body[i] = Dot}
        whole == IF points = {} THEN body
                 ELSE SubSeq(body, 1, (CHOOSE i \in points : TRUE) - 1)
        frac == IF points = {} THEN <<>>
                ELSE SubSeq(body, (CHOOSE i \in points : TRUE) + 1, Len(body))
        wellFormed ==
            /\ Cardinality(points) <= 1
            /\ Len(whole) + Len(frac) > 0
            /\ Len(frac) <= 3
            /\ \A i \in 1..Len(whole) : IsDigit(whole[i])
            /\ \A i \in 1..Len(frac) : IsDigit(frac[i])
        scale == CASE Len(frac) = 0 -> 1000
                   [] Len(frac) = 1 -> 100
                   [] Len(frac) = 2 -> 10
                   [] OTHER -> 1
        magnitude == DigitsValue(whole) * 1000 + DigitsValue(frac) * scale
    IN IF ~wellFormed THEN Raised("ValueError")
       ELSE [raised |-> None, value |-> IF signed THEN 0 - magnitude ELSE magnitude]

\* float(cell)
FloatOf(cell) ==
    IF cell.t = "num" THEN [raised |-> None, value |-> cell.num]
    ELSE ParseFloat(Codes(cell.str))

RECURSIVE NatDigits(_)
\* the decimal digits of a natural number
NatDigits(n) ==
    IF n < 10 THEN <<Zero + n>>
    ELSE NatDigits(n \div 10) \o <<Zero + (n % 10)>>

\* str(cell): the text itself, or the digits of a whole number
StrOf(cell) ==
    IF cell.t = "str" THEN Codes(cell.str)
    ELSE NatDigits(cell.num \div 1000)

RECURSIVE Split(_, _)
\* text.split(sep) for a one-character separator
Split(text, sep) ==
    IF \A i \in 1..Len(text) : text[i] # sep THEN <<text>>
    ELSE LET i == CHOOSE k \in 1..Len(text) :
                      text[k] = sep /\ \A j \in 1..(k - 1) : text[j] # sep
         IN <<SubSeq(text, 1, i - 1)>> \o Split(SubSeq(text, i + 1, Len(text)), sep)

RECURSIVE LexLE(_, _)
\* a <= b on texts: the order of the first differing code point, a prefix
\* before the longer text
LexLE(a, b) ==
    IF a = <<>> THEN TRUE
    ELSE IF b = <<>> THEN FALSE
    ELSE IF Head(a) # Head(b) THEN Head(a) < Head(b)
    ELSE LexLE(Tail(a), Tail(b))

\* round(x, 2) on thousandths: to the nearest hundredth, a half to even
Round2(x) ==
    LET q == x \div 10
        rem == x % 10
    IN 10 * (IF rem > 5 THEN q + 1
             ELSE IF rem = 5 THEN q + (q % 2)
             ELSE q)

\* headers.index(name) if name in headers else default
HeaderIndex(headers, name, default) ==
    IF Contains(headers, StrCell(name)) THEN IndexOf(headers, StrCell(name))
    ELSE default

\* A bug: the bounds are compared strictly, a row dated on a bound is left
\* out.
RowEffectExclusiveBounds(row, date_range, date_idx, category_idx, amount_idx) ==
    LET amount == FloatOf(row[amount_idx + 1])
        category == IF Len(row) > category_idx THEN row[category_idx + 1]
                    ELSE StrCell("Uncategorized")
        filtered == Truthy(date_range) /\ Len(row) > date_idx
        bounds == Split(Codes(date_range), Colon)
        date_str == StrOf(row[date_idx + 1])
    IN IF IsRaised(amount) THEN [do |-> "skip"]
       ELSE IF filtered /\ Len(bounds) # 2 THEN [do |-> "skip"]
       ELSE IF filtered /\ ~(/\ LexLE(bounds[1], date_str) /\ bounds[1] # date_str
                             /\ LexLE(date_str, bounds[2]) /\ bounds[2] # date_str)
       THEN [do |-> "skip"]
       ELSE [do |-> "count", amount |-> amount.value, category |-> category]

\* A bug: a date_range that does not split in two is taken as no range.
RowEffectIgnoresBadRange(row, date_range, date_idx, category_idx, amount_idx) ==
    LET amount == FloatOf(row[amount_idx + 1])
        category == IF Len(row) > category_idx THEN row[category_idx + 1]
                    ELSE StrCell("Uncategorized")
        bounds == Split(Codes(date_range), Colon)
        filtered == Truthy(date_range) /\ Len(row) > date_idx /\ Len(bounds) = 2
        date_str == StrOf(row[date_idx + 1])
    IN IF IsRaised(amount) THEN [do |-> "skip"]
       ELSE IF filtered /\ ~(LexLE(bounds[1], date_str) /\ LexLE(date_str, bounds[2]))
       THEN [do |-> "skip"]
       ELSE [do |-> "count", amount |-> amount.value, category |-> category]

\* the row loop without the except clause's `continue`: a row whose amount
\* is no number is counted with amount 0
RowEffectCountsBadAmount(row, date_range, date_idx, category_idx, amount_idx) ==
    LET amount == FloatOf(row[amount_idx + 1])
        category == IF Len(row) > category_idx THEN row[category_idx + 1]
                    ELSE StrCell("Uncategorized")
        filtered == Truthy(date_range) /\ Len(row) > date_idx
        bounds == Split(Codes(date_range), Colon)
        date_str == StrOf(row[date_idx + 1])
    IN IF IsRaised(amount) THEN [do |-> "count", amount |-> 0, category |-> category]
       ELSE IF filtered /\ Len(bounds) # 2 THEN [do |-> "skip"]
       ELSE IF filtered /\ ~(LexLE(bounds[1], date_str) /\ LexLE(date_str, bounds[2]))
       THEN [do |-> "skip"]
       ELSE [do |-> "count", amount |-> amount.value, category |-> category]

\* The body of the try block for one row: what it does to the running
\* totals.  "skip" is `continue`, from the date filter or from the except
\* clause for ValueError and TypeError.
RowEffect(row, date_range, date_idx, category_idx, amount_idx) ==
    LET amount == FloatOf(row[amount_idx + 1])
        category == IF Len(row) > category_idx THEN row[category_idx + 1]
                    ELSE StrCell("Uncategorized")
        filtered == Truthy(date_range) /\ Len(row) > date_idx
        bounds == Split(Codes(date_range), Colon)
        date_str == StrOf(row[date_idx + 1])
    IN IF IsRaised(amount) THEN [do |-> "skip"]
       ELSE IF filtered /\ Len(bounds) # 2 THEN [do |-> "skip"]
       ELSE IF filtered /\ ~(LexLE(bounds[1], date_str) /\ LexLE(date_str, bounds[2]))
       THEN [do |-> "skip"]
       ELSE [do |-> "count", amount |-> amount.value, category |-> category]

RECURSIVE Summarize(_, _, _, _, _, _)
\* the for loop over data_rows
Summarize(rows, acc, date_range, date_idx, category_idx, amount_idx) ==
    IF rows = <<>> THEN acc
    ELSE
      LET row == Head(rows)
          e == IF Len(row) > amount_idx
               THEN RowEffect(row, date_range, date_idx, category_idx, amount_idx)
               ELSE [do |-> "skip"]
          next ==
              IF e.do = "skip" THEN acc
              ELSE [total |-> acc.total + e.amount,
                    transaction_count |-> acc.transaction_count + 1,
                    by_category |->
                        IF e.category \in DOMAIN acc.by_category
                        THEN [acc.by_category EXCEPT ![e.category] =
                                 [amount |-> @.amount + e.amount, count |-> @.count + 1]]
                        ELSE acc.by_category @@
                             (e.category :> [amount |-> e.amount, count |-> 1])]
      IN Summarize(Tail(rows), next, date_range, date_idx, category_idx, amount_idx)

\* the envelope made from the values of the sheet
ExpenseSummary(spreadsheet_id, date_range, values) ==
    IF Len(values) < 2
    THEN [total |-> 0, by_category |-> <<>>, transaction_count |-> 0]
    ELSE
      LET headers == values[1]
          data_rows == Tail(values)
          sums == Summarize(data_rows,
                            [total |-> 0, by_category |-> <<>>, transaction_count |-> 0],
                            date_range,
                            HeaderIndex(headers, "Date", 0),
                            HeaderIndex(headers, "Category", 2),
                            HeaderIndex(headers, "Amount", 3))
      IN [spreadsheet_id |-> spreadsheet_id,
          total |-> Round2(sums.total),
          by_category |-> [k \in DOMAIN sums.by_category |->
                              [amount |-> Round2(sums.by_category[k].amount),
                               count |-> sums.by_category[k].count]],
          transaction_count |-> sums.transaction_count,
          date_range |-> date_range]

get_expense_summary_begin(a) ==
    LET r == Entered("get_expense_summary", a)
    IN [r EXCEPT !.pc = "values"]

get_expense_summary_values(r, o) ==
    LET called == [r EXCEPT !.calls = Append(@, [api |-> "values.get",
                                                 spreadsheetId |-> r.args.spreadsheet_id,
                                                 range |-> "A:G",
                                                 valueRenderOption |-> "UNFORMATTED_VALUE"])]
    IN IF o.kind # "ok" THEN CatchFormatted(called, "Failed to get summary", o)
       ELSE Return([called EXCEPT !.last = o],
                   ExpenseSummary(r.args.spreadsheet_id, r.args.date_range,
                                  GetOr(o.body, "values", <<>>)))

ExpenseHeaders ==
    <<StrCell("Date"), StrCell("Description"), StrCell("Category"), StrCell("Amount")>>

\* the sheets read here: the header row alone; one good row and one whose
\* amount is no number; amounts as text and as number on three dates; and a
\* sheet whose date column comes last, with a date written without leading
\* zeros, a row that ends before its date and a date in February
ExpenseSheets ==
    {<<ExpenseHeaders>>,
     <<ExpenseHeaders,
       <<StrCell("2024-01-01"), StrCell("Coffee"), StrCell("Food & Dining"), NumCell(4500)>>,
       <<StrCell("2024-01-02"), StrCell("Bus"), StrCell("Transportation"), StrCell("bad")>>>>,
     <<ExpenseHeaders,
       <<StrCell("2024-01-01"), StrCell("Coffee"), StrCell("Food & Dining"), NumCell(4500)>>,
       <<StrCell("2024-01-02"), StrCell("Tea"), StrCell("Food & Dining"), StrCell("4.5")>>,
       <<StrCell("2024-01-31"), StrCell("Bus"), StrCell("Transportation"), NumCell(1004)>>,
       <<StrCell("2024-01-31")>>>>,
     <<<<StrCell("Category"), StrCell("Amount"), StrCell("Date")>>,
       <<StrCell("Food & Dining"), NumCell(2000), StrCell("2024-1-5")>>,
       <<StrCell("Travel"), NumCell(3000)>>,
       <<StrCell("Travel"), NumCell(1000), StrCell("2024-02-01")>>>>}

DateRangeArgs == {None, "", "2024-01-02:2024-01-31", "2024", "1:2:3"}

Invoke_get_expense_summary(s) ==
    /\ SheetsRegistered
    /\ inv[s].pc = "idle"
    /\ \E a \in [spreadsheet_id : SpreadsheetIds, date_range : DateRangeArgs] :
          Advance(s, get_expense_summary_begin(a))
    /\ UNCHANGED <<drive_service, FOLDER_ID, sheets_tools, cls, norm, upstream>>

Step_get_expense_summary(s) ==
    /\ inv[s].op = "get_expense_summary"
    /\ inv[s].pc = "values"
    /\ \E o \in {[kind |-> "ok", body |-> [values |-> v]] : v \in ExpenseSheets}
                \cup {[kind |-> "ok", body |-> [empty |-> TRUE]]} \cup Failures :
          Advance(s, get_expense_summary_values(inv[s], o))
    /\ UNCHANGED <<drive_service, FOLDER_ID, sheets_tools, cls, norm, upstream>>

(***************************************************************************)
(* The serving loop                                                        *)
(***************************************************************************)
Init ==
    /\ drive_service \in {None, DriveHandle}
    /\ FOLDER_ID \in {None, "", "folder-D"}
    /\ sheets_tools = Unregistered
    /\ inv = [s \in Slots |-> Idle]
    /\ returned = NoReturn
    /\ cls = ClsIdle
    /\ norm = [pc |-> "idle"]
    /\ upstream = <<>>

\* every step the handlers of one task slot can take
Serve(s) ==
    \/ Invoke_list_files(s)
    \/ Step_list_files(s)
    \/ Invoke_create_sheet(s)
    \/ Step_create_sheet(s)
    \/ Invoke_get_folder_metadata(s)
    \/ Step_get_folder_metadata(s)
    \/ Invoke_gdrive_search(s)
    \/ Step_gdrive_search(s)
    \/ Invoke_gdrive_read_file(s)
    \/ Step_gdrive_read_file(s)
    \/ Invoke_create_expense_sheet(s)
    \/ Step_create_expense_sheet(s)
    \/ Invoke_read_sheet_cells(s)
    \/ Step_read_sheet_cells(s)
    \/ Invoke_update_sheet_cells(s)
    \/ Step_update_sheet_cells(s)
    \/ Invoke_append_expense_row(s)
    \/ Step_append_expense_row(s)
    \/ Invoke_set_sheet_metadata(s)
    \/ Step_set_sheet_metadata(s)
    \/ Invoke_get_sheet_metadata(s)
    \/ Step_get_sheet_metadata(s)
    \/ Invoke_add_category_validation(s)
    \/ Step_add_category_validation(s)
    \/ Invoke_get_expense_summary(s)
    \/ Step_get_expense_summary(s)

\* The handlers are coroutines that never await: an invocation runs from
\* its entry to its return before the event loop starts the next one.
Next == register_sheets_tools \/ Serve(1)

Spec == Init /\ [][Next]_vars

\* The handlers that loop, with the scheduling of asyncio: a handler that
\* waits for an answer of the upstream goes on when the answer is there, and
\* the upstream answers every call, with a result or with a failure.
NextLoops ==
    \/ Invoke_list_files(1)
    \/ Step_list_files(1)
    \/ Invoke_get_folder_metadata(1)
    \/ Step_get_folder_metadata(1)
    \/ Invoke_gdrive_read_file(1)
    \/ Step_gdrive_read_file(1)

SpecLoops ==
    /\ Init
    /\ [][NextLoops]_vars
    /\ WF_vars(Step_list_files(1))
    /\ WF_vars(Step_get_folder_metadata(1))
    /\ WF_vars(Step_gdrive_read_file(1))

\* server.py: the drive tools and the resource, served once the Drive
\* service is initialized
InitServer ==
    /\ drive_service = DriveHandle
    /\ FOLDER_ID \in {None, "", "folder-D"}
    /\ sheets_tools = Unregistered
    /\ inv = [s \in Slots |-> Idle]
    /\ returned = NoReturn
    /\ cls = ClsIdle
    /\ norm = [pc |-> "idle"]
    /\ upstream = <<>>

NextServer ==
    \/ Invoke_gdrive_search(1)
    \/ Step_gdrive_search(1)
    \/ Invoke_gdrive_read_file(1)
    \/ Step_gdrive_read_file(1)
    \/ Invoke_read_drive_resource(1)
    \/ Step_read_drive_resource(1)

SpecServer == InitServer /\ [][NextServer]_vars

\* The schedule of the design (suspension at every upstream call): the
\* pagination walks of two tasks interleave call by call.  The walks differ
\* in the folder they list (the argument or the configured default); the
\* arguments that do not bear on the cursor keep their default values.
NextConcurrent ==
    \E s \in Slots :
        \/ /\ Invoke_list_files(s)
           /\ inv'[s].args.folder_id # ""
           /\ inv'[s].args.mime_type = None
           /\ inv'[s].args.page_size = 100
        \/ Step_list_files(s)
        \/ /\ Invoke_get_folder_metadata(s)
           /\ inv'[s].args.folder_id # ""
           /\ inv'[s].args.include_subfolders = FALSE
        \/ Step_get_folder_metadata(s)

InitConcurrent ==
    /\ drive_service = DriveHandle
    /\ FOLDER_ID = "folder-D"
    /\ sheets_tools = Unregistered
    /\ inv = [s \in Slots |-> Idle]
    /\ returned = NoReturn
    /\ cls = ClsIdle
    /\ norm = [pc |-> "idle"]
    /\ upstream = <<>>

SpecConcurrent == InitConcurrent /\ [][NextConcurrent]_vars

(***************************************************************************)
(* Properties                                                              *)
(***************************************************************************)
\* an invocation returns in this step
Finished == returned.pc = "done"

\* the invocation ended on a failed upstream call
FailedCall(r) == "kind" \in DOMAIN r.last /\ r.last.kind \in {"http", "exc"}

FailedHttp(r) == "kind" \in DOMAIN r.last /\ r.last.kind = "http"

\* the files().list calls an invocation has made, in order
ListCallsOf(r) == SelectSeq(r.calls, LAMBDA c : c.api = "files.list")

\* the fields an error envelope may carry
ErrorFields == {"error", "status_code", "reason", "suggestion", "details"}

\* C1 (as stated): every envelope a tool handler returns carries the flag
\* ok, true on a success envelope without error and false on an error
\* envelope with error.
C1_OkFlagEnvelope ==
    Finished =>
        /\ "ok" \in DOMAIN returned.result
        /\ \/ returned.result.ok = TRUE /\ "error" \notin DOMAIN returned.result
           \/ returned.result.ok = FALSE /\ "error" \in DOMAIN returned.result

\* C1 (amended): every envelope a tool handler returns is exactly one of
\* two shapes told apart by the field error: an error envelope, which has
\* error and nothing besides status_code, reason, suggestion and details,
\* or a success envelope, which has operation fields and none of the error
\* fields.  An invocation that ended on a failed upstream call returns the
\* error envelope.
C1_ErrorOrSuccessEnvelope ==
    Finished =>
        LET fields == DOMAIN returned.result
        IN /\ \/ "error" \in fields /\ fields \subseteq ErrorFields
              \/ fields # {} /\ fields \cap ErrorFields = {}
           /\ FailedCall(returned) => "error" \in fields

\* a walk that fails on its second page, after records were gathered,
\* returns
C1_Witness ==
    /\ Finished
    /\ returned.op = "list_files"
    /\ FailedCall(returned)
    /\ returned.last.kind = "exc"
    /\ Len(returned.loc.all_files) = 2
    /\ DOMAIN returned.result = {"error"}

\* C2 (as stated): with the service handle absent every handler, the
\* sheets tools included, is there to answer an invocation, and answers it
\* with the not-initialized envelope after zero upstream calls.
C2_NotInitializedEverywhere ==
    ~Truthy(drive_service) =>
        /\ sheets_tools.pc # "raised"
        /\ Finished => returned.result = NotInitialized /\ returned.calls = <<>>

\* C3 (as stated): whichever handler it is, an invocation that ended on an
\* upstream HTTP failure returns what the Error Classifier makes of that
\* failure: its error text with status_code and reason, and the suggestion
\* for 400, 403, 404 and 429.
C3_EveryHandlerClassifies ==
    Finished /\ FailedHttp(returned) =>
        /\ {"error", "status_code", "reason"} \subseteq DOMAIN returned.result
        /\ returned.result = handle_api_error(returned.last.error)

C5_StatusMapping ==
    cls.pc = "classified" =>
        LET d == cls.error_details
            e == cls.error
        IN /\ ~IsRaised(d)
           /\ d.status_code = e.status
           /\ d.reason = e.reason
           /\ e.status = 403 =>
                 /\ d.error = "Permission denied"
                 /\ "suggestion" \in DOMAIN d
                 /\ d.suggestion = "Check service account permissions and folder access"
           /\ e.status = 404 =>
                 /\ d.error = "Resource not found"
                 /\ "suggestion" \in DOMAIN d
                 /\ d.suggestion = "Verify the file/folder ID exists and is accessible"
           /\ e.status = 429 =>
                 /\ d.error = "Rate limit exceeded"
                 /\ "suggestion" \in DOMAIN d
                 /\ d.suggestion = "Too many requests, please try again later"
           /\ e.status = 400 =>
                 /\ d.error = "Invalid request"
                 /\ "suggestion" \in DOMAIN d
                 /\ d.suggestion = "Check request parameters"
           /\ e.status \notin {400, 403, 404, 429} =>
                 /\ d.error = "API request failed"
                 /\ "suggestion" \notin DOMAIN d

\* a 429 has been classified
C5_Witness ==
    /\ cls.pc = "classified"
    /\ cls.error.status = 429
    /\ cls.error_details.error = "Rate limit exceeded"

\* the descriptor of the same failure when it carries no body at all
WithoutBody(error) ==
    handle_api_error([error EXCEPT !.content = [kind |-> "absent", message |-> None]])

\* C6: classification never fails.  A body that parses and holds the nested
\* message gives details equal to that message; a body that is missing,
\* does not decode, does not parse or lacks the message gives no details
\* and leaves the other fields as they are without a body; no exception
\* leaves the classifier.
C6_DetailsOrOmitted ==
    cls.pc = "classified" =>
        LET d == cls.error_details
            e == cls.error
        IN /\ ~IsRaised(d)
           /\ e.content.kind = "message" =>
                 /\ "details" \in DOMAIN d
                 /\ d.details = e.content.message
           /\ e.content.kind # "message" => "details" \notin DOMAIN d
           /\ [k \in DOMAIN d \ {"details"} |-> d[k]] = WithoutBody(e)

\* a failure whose body makes the parse raise has been classified, and the
\* descriptor is the generic one without details
C6_Witness ==
    /\ cls.pc = "classified"
    /\ cls.error.content.kind \in {"undecodable", "notjson", "errstring"}
    /\ cls.error.status = 500
    /\ DOMAIN cls.error_details = {"error", "status_code", "reason"}

\* the invocations in flight and the one that returns in this step
InFlight == {inv[s] : s \in Slots}

\* min(max(p, 1), 1000), case by case
Clamped(p) == IF p < 1 THEN 1 ELSE IF p > 1000 THEN 1000 ELSE p

\* every list call r has made carries the clamped page size
ClampedCalls(r) ==
    \A i \in 1..Len(ListCallsOf(r)) :
        LET c == ListCallsOf(r)[i]
        IN /\ 1 <= c.pageSize /\ c.pageSize <= 1000
           /\ r.op = "list_files" => c.pageSize = Clamped(r.args.page_size)

\* C7: every list call of a walk, from the first on, carries the page size
\* min(max(p, 1), 1000) of the requested p; no list call carries a page
\* size outside 1..1000.
C7_PageSizeClamped ==
    /\ \A r \in InFlight : ClampedCalls(r)
    /\ Finished => ClampedCalls(returned)

\* list_files asked for page size 0 returns after two list calls
C7_Witness ==
    /\ Finished
    /\ returned.op = "list_files"
    /\ returned.args.page_size = 0
    /\ Len(returned.calls) = 2
    /\ returned.calls[1].pageSize = 1
    /\ returned.calls[2].pageSize = 1

\* the fields by which a walk hands records to its caller
RecordFields == {"files", "count", "folder_id", "folder", "statistics"}

\* C8: a walk whose list call fails on page k returns an error envelope
\* and nothing of pages 1..k-1: the envelope of the classifier for an HTTP
\* failure, with its status_code and reason, and in no case a field that
\* holds records; the failing call is the last call of the walk.
C8_WalkAllOrNothing ==
    (/\ Finished
     /\ returned.op \in {"list_files", "get_folder_metadata"}
     /\ FailedCall(returned)
     /\ ListCallsOf(returned) # <<>>)
    => /\ "error" \in DOMAIN returned.result
       /\ DOMAIN returned.result \cap RecordFields = {}
       /\ Len(ListCallsOf(returned)) = Len(returned.rcvd) + 1
       /\ inv[returned.task].pc = "idle"
       /\ returned.last.kind = "http" =>
             /\ {"status_code", "reason"} \subseteq DOMAIN returned.result
             /\ returned.result.status_code = returned.last.error.status
             /\ returned.result.reason = returned.last.error.reason

\* get_folder_metadata fails with an HTTP failure on its third page, two
\* pages of records gathered
C8_Witness ==
    /\ Finished
    /\ returned.op = "get_folder_metadata"
    /\ FailedHttp(returned)
    /\ Len(returned.rcvd) = 2
    /\ Len(returned.loc.all_files) = 4
    /\ "status_code" \in DOMAIN returned.result

\* the cursors r has sent, in order
SentCursors(r) == [i \in 1..Len(ListCallsOf(r)) |-> ListCallsOf(r)[i].pageToken]

\* One walk: the first call carries no cursor, call i+1 carries the cursor
\* of response i, which is present; no cursor is sent twice; no call
\* follows a response without cursor.
CursorDiscipline(r) ==
    LET sent == SentCursors(r)
    IN /\ Len(sent) \in {Len(r.rcvd), Len(r.rcvd) + 1}
       /\ sent # <<>> => sent[1] = None
       /\ \A i \in 2..Len(sent) : Truthy(r.rcvd[i - 1]) /\ sent[i] = r.rcvd[i - 1]
       /\ \A i, j \in 2..Len(sent) : i # j => sent[i] # sent[j]
       /\ \A i \in 1..Len(r.rcvd) : ~Truthy(r.rcvd[i]) => Len(sent) = i

\* C9: within a walk the cursor discipline holds, and no walk sends a
\* cursor another walk in flight received, however the walks interleave.
C9_CursorNeverReused ==
    /\ \A r \in InFlight : CursorDiscipline(r)
    /\ Finished => CursorDiscipline(returned)
    /\ \A s, t \in Slots :
          s # t => \A i \in 1..Len(SentCursors(inv[s])) :
                      Truthy(SentCursors(inv[s])[i]) =>
                          \A j \in 1..Len(inv[t].rcvd) :
                              inv[t].rcvd[j] # SentCursors(inv[s])[i]
    /\ Finished =>
          \A t \in Slots \ {returned.task} :
              \A i \in 1..Len(SentCursors(returned)) :
                  Truthy(SentCursors(returned)[i]) =>
                      \A j \in 1..Len(inv[t].rcvd) :
                          inv[t].rcvd[j] # SentCursors(returned)[i]

\* a walk returns after three list calls while the walk of the other task
\* holds a cursor of its own
C9_Witness ==
    /\ Finished
    /\ Len(ListCallsOf(returned)) = 3
    /\ returned.last.kind = "ok"
    /\ \E t \in Slots \ {returned.task} :
          /\ inv[t].pc = "list"
          /\ Len(inv[t].rcvd) = 2
          /\ inv[t].op # returned.op

\* the query list_files sends for a folder
FolderQuery(folder, mime_type) ==
    IF mime_type = None \/ mime_type = ""
    THEN "'" \o folder \o "' in parents"
    ELSE "'" \o folder \o "' in parents and mimeType = '" \o mime_type \o "'"

\* the calls of a list_files invocation all list this folder
Lists(r, folder) ==
    \A i \in 1..Len(r.calls) : r.calls[i].q = FolderQuery(folder, r.args.mime_type)

\* C10 (as stated): list_files without folder_id and without a configured
\* default returns the no-folder error after zero upstream calls; a
\* folder_id that is given is the folder listed, and the default is listed
\* only when the argument is absent.
C10_GivenFolderPreferred ==
    /\ \A r \in InFlight :
          r.op = "list_files" /\ r.args.folder_id # None => Lists(r, r.args.folder_id)
    /\ (Finished /\ returned.op = "list_files" /\ Truthy(drive_service)) =>
          /\ returned.args.folder_id # None => Lists(returned, returned.args.folder_id)
          /\ (returned.args.folder_id = None /\ FOLDER_ID = None) =>
                returned.result = NoFolder /\ returned.calls = <<>>

\* C10 (amended): list_files without a non-empty folder_id and without a
\* non-empty configured default returns the no-folder error after zero
\* upstream calls; a non-empty folder_id is the folder listed whatever the
\* default, and the default is listed when the argument is absent or empty.
ListsTarget(r) ==
    /\ r.args.folder_id \notin {None, ""} => Lists(r, r.args.folder_id) /\ r.calls # <<>>
    /\ r.args.folder_id \in {None, ""} /\ FOLDER_ID \notin {None, ""}
          => Lists(r, FOLDER_ID) /\ r.calls # <<>>

C10_NonEmptyFolderPreferred ==
    /\ \A r \in InFlight : r.op = "list_files" /\ r.calls # <<>> => ListsTarget(r)
    /\ (Finished /\ returned.op = "list_files" /\ Truthy(drive_service)) =>
          /\ ListsTarget(returned)
          /\ (returned.args.folder_id \in {None, ""} /\ FOLDER_ID \in {None, ""}) =>
                returned.result = NoFolder /\ returned.calls = <<>>

\* list_files given folder-A while folder-D is configured has listed
\* folder-A and returns
C10_Witness ==
    /\ Finished
    /\ returned.op = "list_files"
    /\ FOLDER_ID = "folder-D"
    /\ returned.args.folder_id = "folder-A"
    /\ "folder_id" \in DOMAIN returned.result
    /\ returned.result.folder_id = "folder-A"
    /\ returned.calls[1].q = "'folder-A' in parents"

RECURSIVE IsUtf8Here(_)
\* the contents over ContentBytes that are UTF-8 text: runs of "h" and of
\* the pair 195, 169
IsUtf8Here(bytes) ==
    \/ bytes = <<>>
    \/ bytes[1] = 104 /\ IsUtf8Here(Tail(bytes))
    \/ /\ Len(bytes) >= 2
       /\ bytes[1] = 195
       /\ bytes[2] = 169
       /\ IsUtf8Here(SubSeq(bytes, 3, Len(bytes)))

\* the kinds drawn that start with "text/"
TextSlashKinds == {"text/plain", "text/csv", "text/markdown"}

\* the four exportable kinds
ExportableKinds ==
    {"application/vnd.google-apps.document", "application/vnd.google-apps.spreadsheet",
     "application/vnd.google-apps.presentation", "application/vnd.google-apps.drawing"}

\* C11: for every content and declared kind the normalizer returns a
\* success envelope, never an error and never an exception: UTF-8 text
\* with encoding "utf-8" when the kind starts with "text/", is
\* "application/json" or is exportable and the bytes are valid UTF-8;
\* base64 with encoding "base64" when such a kind holds bytes that are not
\* valid UTF-8, and for every other kind whatever the bytes.
C11_NormalizationRule ==
    norm.pc = "normalized" =>
        LET res == norm.result
            textual == norm.mime_type \in
                           TextSlashKinds \cup {"application/json"} \cup ExportableKinds
        IN /\ ~IsRaised(res)
           /\ DOMAIN res = {"file_id", "name", "mime_type", "content", "encoding"}
           /\ (textual /\ IsUtf8Here(norm.content_bytes)) =>
                 /\ res.encoding = "utf-8"
                 /\ res.content = Utf8Decode(norm.content_bytes).text
           /\ (textual /\ ~IsUtf8Here(norm.content_bytes)) =>
                 /\ res.encoding = "base64"
                 /\ res.content = b64encode(norm.content_bytes)
           /\ ~textual =>
                 /\ res.encoding = "base64"
                 /\ res.content = b64encode(norm.content_bytes)

\* an exported drawing whose bytes are no UTF-8 has come back as base64
C11_Witness ==
    /\ norm.pc = "normalized"
    /\ norm.mime_type = "application/vnd.google-apps.drawing"
    /\ norm.content_bytes = <<104, 255>>
    /\ norm.result.encoding = "base64"
    /\ norm.result.content = <<97, 80, 56, 61>>

RECURSIVE Utf8Encode(_)
\* str.encode('utf-8')
Utf8Encode(text) ==
    IF text = <<>> THEN <<>>
    ELSE LET cp == Head(text)
             first == IF cp < 128 THEN <<cp>>
                      ELSE IF cp < 2048 THEN <<192 + (cp \div 64), 128 + (cp % 64)>>
                      ELSE IF cp < 65536
                      THEN <<224 + (cp \div 4096), 128 + ((cp \div 64) % 64), 128 + (cp % 64)>>
                      ELSE <<240 + (cp \div 262144), 128 + ((cp \div 4096) % 64),
                             128 + ((cp \div 64) % 64), 128 + (cp % 64)>>
         IN first \o Utf8Encode(Tail(text))

\* the 6-bit value of a character of the base64 alphabet
B64Value(c) ==
    IF 65 <= c /\ c <= 90 THEN c - 65
    ELSE IF 97 <= c /\ c <= 122 THEN c - 71
    ELSE IF 48 <= c /\ c <= 57 THEN c + 4
    ELSE IF c = 43 THEN 62
    ELSE 63

RECURSIVE B64Decode(_)
\* base64.b64decode
B64Decode(text) ==
    IF Len(text) < 4 THEN <<>>
    ELSE LET a == B64Value(text[1])
             b == B64Value(text[2])
             rest == B64Decode(SubSeq(text, 5, Len(text)))
         IN IF text[3] = 61 THEN <<(a * 4) + (b \div 16)>>
            ELSE IF text[4] = 61
            THEN <<(a * 4) + (b \div 16), ((b % 16) * 16) + (B64Value(text[3]) \div 4)>>
            ELSE <<(a * 4) + (b \div 16),
                   ((b % 16) * 16) + (B64Value(text[3]) \div 4),
                   ((B64Value(text[3]) % 4) * 64) + B64Value(text[4])>> \o rest

RECURSIVE Concat(_)
\* the chunks of a download, one after the other
Concat(chunks) == IF chunks = <<>> THEN <<>> ELSE Head(chunks) \o Concat(Tail(chunks))

\* C12: read_file round-trips the downloaded bytes: the content returned
\* with encoding "utf-8" encodes back to the chunks received, one after the
\* other, and the content returned with encoding "base64" decodes back to
\* them.
C12_RoundTrip ==
    (Finished /\ returned.op = "gdrive_read_file" /\ "encoding" \in DOMAIN returned.result) =>
        /\ returned.result.encoding \in {"utf-8", "base64"}
        /\ returned.result.encoding = "utf-8" =>
              Utf8Encode(returned.result.content) = Concat(returned.rcvd)
        /\ returned.result.encoding = "base64" =>
              B64Decode(returned.result.content) = Concat(returned.rcvd)

\* a text file downloaded in two chunks that split U+00E9 returns as the
\* text of that one character
C12_Witness ==
    /\ Finished
    /\ returned.op = "gdrive_read_file"
    /\ returned.rcvd = <<<<195>>, <<169>>>>
    /\ "encoding" \in DOMAIN returned.result
    /\ returned.result.encoding = "utf-8"
    /\ returned.result.content = <<233>>

\* the spreadsheet an invocation of create_expense_sheet has created upstream
SheetsCreatedBy(r) ==
    IF "spreadsheet_id" \in DOMAIN r.loc
    THEN {n \in 1..Len(upstream) : SheetId(n) = r.loc.spreadsheet_id}
    ELSE {}

\* C13 (as stated): create_expense_sheet leaves no partial state: when an
\* invocation returns, with its envelope of success or with an error, the
\* spreadsheet it has created upstream, if any, is fully set up.
C13_NoPartialState ==
    (Finished /\ returned.op = "create_expense_sheet") =>
        \A n \in SheetsCreatedBy(returned) : upstream[n].setup

(***************************************************************************)
(* C14: the rows get_expense_summary counts                                *)
(***************************************************************************)
\* get_expense_summary returned a summary of a sheet that has data rows
Summarized ==
    /\ Finished
    /\ returned.op = "get_expense_summary"
    /\ "error" \notin DOMAIN returned.result
    /\ "values" \in DOMAIN returned.last.body
    /\ Len(returned.last.body.values) >= 2

SummaryRows == Tail(returned.last.body.values)

SummaryAmountIdx == HeaderIndex(returned.last.body.values[1], "Amount", 3)

SummaryCategoryIdx == HeaderIndex(returned.last.body.values[1], "Category", 2)

SummaryDateIdx == HeaderIndex(returned.last.body.values[1], "Date", 0)

\* the data rows, by position, whose amount cell is present and is a number
AmountRows ==
    {i \in 1..Len(SummaryRows) :
        /\ Len(SummaryRows[i]) > SummaryAmountIdx
        /\ ~IsRaised(FloatOf(SummaryRows[i][SummaryAmountIdx + 1]))}

\* the rows the date filter lets through: all of them when no date_range is
\* given or the row has no date cell
InRangeRows ==
    {i \in 1..Len(SummaryRows) :
        \/ ~Truthy(returned.args.date_range)
        \/ Len(SummaryRows[i]) <= SummaryDateIdx
        \/ LET bounds == Split(Codes(returned.args.date_range), Colon)
               date_str == StrOf(SummaryRows[i][SummaryDateIdx + 1])
           IN /\ Len(bounds) = 2
              /\ LexLE(bounds[1], date_str)
              /\ LexLE(date_str, bounds[2])}

AmountAt(i) == FloatOf(SummaryRows[i][SummaryAmountIdx + 1]).value

CategoryAt(i) ==
    IF Len(SummaryRows[i]) > SummaryCategoryIdx
    THEN SummaryRows[i][SummaryCategoryIdx + 1]
    ELSE StrCell("Uncategorized")

RECURSIVE AmountSum(_)
\* the sum of the amounts of a set of rows, in thousandths
AmountSum(rows) ==
    IF rows = {} THEN 0
    ELSE LET i == CHOOSE k \in rows : TRUE
         IN AmountAt(i) + AmountSum(rows \ {i})

RECURSIVE CountSum(_, _)
\* the counts of a set of categories, added up
CountSum(by_category, categories) ==
    IF categories = {} THEN 0
    ELSE LET k == CHOOSE c \in categories : TRUE
         IN by_category[k].count + CountSum(by_category, categories \ {k})

\* the summary is the one of the rows `counted`, each sum rounded by `rnd`
SummaryOf(counted, rnd(_)) ==
    LET res == returned.result
    IN /\ res.transaction_count = Cardinality(counted)
       /\ res.total = rnd(AmountSum(counted))
       /\ DOMAIN res.by_category = {CategoryAt(i) : i \in counted}
       /\ \A k \in DOMAIN res.by_category :
             LET of_k == {i \in counted : CategoryAt(i) = k}
             IN /\ res.by_category[k].amount = rnd(AmountSum(of_k))
                /\ res.by_category[k].count = Cardinality(of_k)
       /\ CountSum(res.by_category, DOMAIN res.by_category) = res.transaction_count

Exact(x) == x

\* the example of the claim: one good row and one whose amount is "bad"
ExampleSheet ==
    <<ExpenseHeaders,
      <<StrCell("2024-01-01"), StrCell("Coffee"), StrCell("Food & Dining"), NumCell(4500)>>,
      <<StrCell("2024-01-02"), StrCell("Bus"), StrCell("Transportation"), StrCell("bad")>>>>

\* the example is summarized as total 4.50, one transaction, one category
ExampleSummary ==
    (Summarized /\ returned.last.body.values = ExampleSheet
                /\ ~Truthy(returned.args.date_range)) =>
        /\ returned.result.total = 4500
        /\ returned.result.transaction_count = 1
        /\ DOMAIN returned.result.by_category = {StrCell("Food & Dining")}
        /\ returned.result.by_category[StrCell("Food & Dining")] =
               [amount |-> 4500, count |-> 1]

\* C14 (as stated): get_expense_summary counts every data row whose amount
\* cell is present and parses as a number, and no other: total is the sum of
\* their amounts, transaction_count their number, by_category their sums and
\* counts by category, the counts adding up to transaction_count.
C14_CountsEveryParsedRow ==
    Summarized => SummaryOf(AmountRows, Exact)

\* C14 (amended): get_expense_summary skips, without an error envelope, the
\* rows whose amount cell is missing or is no number, and of the others it
\* counts those the date filter lets through: total is the sum of their
\* amounts rounded to two decimals, transaction_count their number,
\* by_category their rounded sums and their counts by category, the counts
\* adding up to transaction_count; the example yields 4.50, 1 and the single
\* category 'Food & Dining'.
C14_CountsParsedRowsInRange ==
    /\ Summarized => SummaryOf(AmountRows \cap InRangeRows, Round2)
    /\ ExampleSummary

\* a sheet with a row that has no amount, a row left out by the date range
\* and a sum that rounding changes has been summarized
C14_Witness ==
    /\ Summarized
    /\ AmountRows # 1..Len(SummaryRows)
    /\ AmountRows \ InRangeRows # {}
    /\ AmountRows \cap InRangeRows # {}
    /\ returned.result.total # AmountSum(AmountRows \cap InRangeRows)

(***************************************************************************)
(* C15: the Resource Resolver                                              *)
(***************************************************************************)
\* a read of the resource has ended
Resolved == Finished /\ returned.op = "read_drive_resource"

\* C15: a read of the resource gdrive:///id invokes gdrive_read_file once,
\* with file_id = id, and every upstream call is about that file; when the
\* tool returns an error envelope the read fails with the envelope's message
\* and returns no text, when it returns encoding 'base64' the output is the
\* binary marker followed by the encoded payload, and otherwise the output is
\* the content of the envelope unchanged.
C15_ResolverMapsToReadFile ==
    Resolved =>
        /\ returned.invoked = <<[tool |-> "gdrive_read_file",
                                 file_id |-> returned.resource]>>
        /\ returned.args = [file_id |-> returned.resource]
        /\ \A i \in 1..Len(returned.calls) :
              returned.calls[i].fileId = returned.resource
        /\ LET env == returned.tool_result
               out == returned.result
           IN /\ "error" \in DOMAIN env =>
                    /\ out = [raised |-> env.error]
                    /\ "text" \notin DOMAIN out
              /\ ("error" \notin DOMAIN env /\ env.encoding = "base64") =>
                    out = [text |-> BinaryMarker \o env.content]
              /\ ("error" \notin DOMAIN env /\ env.encoding # "base64") =>
                    out = [text |-> env.content]

\* a binary file has been read as a resource
C15_Witness ==
    /\ Resolved
    /\ "encoding" \in DOMAIN returned.tool_result
    /\ returned.tool_result.encoding = "base64"
    /\ Len(returned.tool_result.content) > 0
    /\ Len(returned.result.text) = Len(BinaryMarker) + Len(returned.tool_result.content)

(***************************************************************************)
(* C16: concurrent invocations share no mutable state                      *)
(***************************************************************************)
\* one step of a walk run on its own: the handler's code applied to the
\* invocation and the answer, whatever the other tasks are doing
StepAlone(r, o) ==
    CASE r.op = "list_files" -> list_files_page(Heard(r, o), o)
      [] r.op = "get_folder_metadata" /\ r.pc = "get" ->
            get_folder_metadata_get(Heard(r, o), o)
      [] r.op = "get_folder_metadata" /\ r.pc # "get" ->
            get_folder_metadata_page(Heard(r, o), o)

RECURSIVE Replay(_, _)
\* the invocation r fed the answers one after the other, with no other task
\* stepping in between
Replay(r, answers) ==
    IF answers = <<>> \/ r.pc = "done" THEN r
    ELSE Replay(StepAlone(r, Head(answers)), Tail(answers))

\* the walk `op` invoked with arguments a and run alone against answers
RunAlone(op, a, answers) ==
    Replay(IF op = "list_files" THEN list_files_begin(a)
           ELSE get_folder_metadata_begin(a),
           answers)

\* an invocation as its task holds it
OfTask(r) == [f \in DOMAIN r \ {"task"} |-> r[f]]

\* every walk in flight, and the walk that returns, is where it would be had
\* it run alone against the answers it heard: same calls, same accumulator,
\* same cursor, same result
IsolatedWalks ==
    /\ \A s \in Slots :
          inv[s].op # "idle" =>
              inv[s] = RunAlone(inv[s].op, inv[s].args, inv[s].heard)
    /\ Finished =>
          OfTask(returned) = RunAlone(returned.op, returned.args, returned.heard)

\* a step leaves the default folder and the service handle as they were
ConfigurationKept ==
    /\ FOLDER_ID' = FOLDER_ID
    /\ drive_service' = drive_service

\* C16: however two walks interleave at their upstream calls, each one's
\* calls, accumulator, cursor and result are those of the walk run alone
\* against the same answers, and no step of a handler changes the default
\* folder identifier or the service handle.
C16_NoSharedMutableState ==
    /\ []IsolatedWalks
    /\ [][ConfigurationKept]_vars

\* a walk over two pages or more returns while the walk of the other task,
\* begun before it ended, has gathered records of its own
C16_Witness ==
    /\ Finished
    /\ "files" \in DOMAIN returned.result
    /\ Len(returned.heard) >= 2
    /\ Len(returned.result.files) >= 2
    /\ \E t \in Slots \ {returned.task} :
          /\ inv[t].pc = "list"
          /\ Len(inv[t].loc.all_files) >= 2
          /\ inv[t].loc.all_files # returned.result.files

(***************************************************************************)
(* C17: one envelope shape per operation                                   *)
(***************************************************************************)
\* the fields of the envelope each handler returns at the end of its try
\* block
SuccessFields(op) ==
    CASE op = "list_files" -> {"folder_id", "count", "files"}
      [] op = "create_sheet" -> {"success", "sheet"}
      [] op = "get_folder_metadata" -> {"folder", "statistics", "files"}
      [] op = "gdrive_search" -> {"results", "count"}
      [] op = "gdrive_read_file" ->
            {"file_id", "name", "mime_type", "content", "encoding"}
      [] op = "create_expense_sheet" -> {"success", "sheet"}
      [] op = "read_sheet_cells" ->
            {"spreadsheet_id", "spreadsheet_title", "range", "values", "rows", "columns"}
      [] op = "update_sheet_cells" ->
            {"success", "updated_cells", "updated_rows", "updated_columns",
             "updated_range"}
      [] op = "append_expense_row" ->
            {"success", "updated_range", "updated_rows", "expense"}
      [] op = "set_sheet_metadata" ->
            {"success", "metadata_key", "metadata_value", "location_type"}
      [] op = "get_sheet_metadata" -> {"spreadsheet_id", "metadata", "count"}
      [] op = "add_category_validation" ->
            {"success", "column", "categories", "start_row"}
      [] op = "get_expense_summary" ->
            {"spreadsheet_id", "total", "by_category", "transaction_count",
             "date_range"}

Succeeded == Finished /\ "error" \notin DOMAIN returned.result

\* C17 (as stated): every successful invocation of an operation returns the
\* same set of fields, the one of the operation, whatever the input and the
\* upstream data; a successful get_expense_summary has total, by_category,
\* transaction_count and date_range, also for a sheet without data rows.
C17_OneShapePerOperation ==
    Succeeded =>
        /\ DOMAIN returned.result = SuccessFields(returned.op)
        /\ returned.op = "get_expense_summary" =>
              {"total", "by_category", "transaction_count", "date_range"}
                  \subseteq DOMAIN returned.result

(***************************************************************************)
(* C18: the records of a walk                                              *)
(***************************************************************************)
\* the pages a walk was answered with, in the order of the calls
PagesOf(r) ==
    LET answers == SelectSeq(r.heard, LAMBDA o : o.kind = "ok" /\ "files" \in DOMAIN o)
    IN [i \in 1..Len(answers) |-> answers[i].files]

\* a walk has ended and every page of it succeeded
WalkSucceeded ==
    /\ Finished
    /\ returned.op \in {"list_files", "get_folder_metadata"}
    /\ PagesOf(returned) # <<>>
    /\ \A i \in 1..Len(returned.heard) : returned.heard[i].kind = "ok"

\* C18: when every page of a walk succeeded, list_files returns the records
\* of all pages concatenated in the order of the pages, and count is their
\* number; get_folder_metadata, when it returns its envelope of success,
\* lists the same concatenation and total_files is its length; it returns
\* an error instead only when a size of a record is no number.
C18_RecordsAreThePagesInOrder ==
    WalkSucceeded =>
        LET all == Concat(PagesOf(returned))
            res == returned.result
        IN /\ returned.op = "list_files" =>
                 /\ "error" \notin DOMAIN res
                 /\ res.files = all
                 /\ res.count = Len(all)
           /\ (returned.op = "get_folder_metadata" /\ "error" \notin DOMAIN res) =>
                 /\ res.files = all
                 /\ res.statistics.total_files = Len(all)
           /\ (returned.op = "get_folder_metadata" /\ "error" \in DOMAIN res) =>
                 \E i \in 1..Len(all) :
                    "size" \in DOMAIN all[i] /\ IsRaised(IntOf(all[i].size))

\* list_files returns the four records of a walk over three pages, one of
\* them empty
C18_Witness ==
    /\ WalkSucceeded
    /\ returned.op = "list_files"
    /\ Len(PagesOf(returned)) = 3
    /\ \E i \in 1..3 : PagesOf(returned)[i] = <<>>
    /\ returned.result.count = 4

(***************************************************************************)
(* C19: what ends the loops                                                *)
(***************************************************************************)
\* the answers to the files().list calls of a walk
ListAnswers(r) ==
    IF r.op = "get_folder_metadata"
    THEN IF r.heard = <<>> THEN <<>> ELSE Tail(r.heard)
    ELSE r.heard

\* the answer lets the walk go on: a page with a cursor
GoesOn(o) == o.kind = "ok" /\ Truthy(o.nextPageToken)

\* the media requests of a download
MediaCallsOf(r) ==
    SelectSeq(r.calls, LAMBDA c : c.api \in {"files.export_media", "files.get_media"})

\* a walk has made one list call per answer, every answer but the last let
\* it go on, and it has returned exactly if the last one did not
WalkDrivenByUpstream(r) ==
    LET answers == ListAnswers(r)
        n == Len(answers)
    IN /\ Len(ListCallsOf(r)) = n
       /\ \A i \in 1..(n - 1) : GoesOn(answers[i])
       /\ (r.pc = "done" /\ n > 0) => ~GoesOn(answers[n])
       /\ r.pc = "list" => (n > 0 => GoesOn(answers[n]))
       /\ (r.pc = "done" /\ \A i \in 1..n : answers[i].kind = "ok") =>
             Len(ListCallsOf(r)) = Len(PagesOf(r))

\* a download has made one request per chunk, and it has returned exactly
\* if the last chunk was reported as the end or the request failed
DownloadDrivenByUpstream(r) ==
    LET n == Len(MediaCallsOf(r))
    IN /\ n = r.loc.chunks
       /\ n \in {Len(r.rcvd), Len(r.rcvd) + 1}
       /\ n = Len(r.rcvd) + 1 => (r.pc = "done" /\ FailedCall(r))
       /\ (r.pc = "done" /\ n > 0 /\ ~FailedCall(r)) => r.last.done
       /\ (r.pc = "chunk" /\ n > 0) => ~r.last.done

LoopsDrivenByUpstream ==
    \A r \in {inv[s] : s \in Slots} \cup (IF Finished THEN {OfTask(returned)} ELSE {}) :
        /\ (r.op \in {"list_files", "get_folder_metadata"} /\ r.pc \in {"list", "done"}) =>
              WalkDrivenByUpstream(r)
        /\ (r.op = "gdrive_read_file" /\ "chunks" \in DOMAIN r.loc) =>
              DownloadDrivenByUpstream(r)

\* C19: the walk makes one list call per page and the download one request
\* per chunk, for any number of them; a walk returns only on an answer
\* without cursor or on a failure, a download only on a chunk reported as
\* the last or on a failure; and the upstream answering every call and
\* ending the listing or the download at some point, the handler returns.
C19_LoopsEndWithTheUpstream ==
    /\ []LoopsDrivenByUpstream
    /\ (inv[1].pc \in {"list", "chunk"}) ~> Finished

\* a walk returns after as many list calls as the upstream had pages
C19_Witness ==
    /\ Finished
    /\ returned.op = "list_files"
    /\ Len(ListCallsOf(returned)) = MaxPages
    /\ Len(PagesOf(returned)) = MaxPages

(***************************************************************************)
(* C20: the order of the calls of read_file                                *)
(***************************************************************************)
\* the kind each exportable kind is exported to
ExportTarget(kind) ==
    CASE kind = "application/vnd.google-apps.document" -> "text/markdown"
      [] kind = "application/vnd.google-apps.spreadsheet" -> "text/csv"
      [] kind = "application/vnd.google-apps.presentation" -> "text/plain"
      [] kind = "application/vnd.google-apps.drawing" -> "image/png"

\* the calls of a read_file that has made some: the metadata first, then
\* media requests of one kind only, the export to the target of the file's
\* kind if the kind is exportable and the raw download if not; a content is
\* returned only once a chunk was reported as the last, and it is the
\* normalized content of the chunks received
ReadFileOrder(r) ==
    LET n == Len(r.calls)
    IN /\ n > 0 => r.calls[1] = [api |-> "files.get", fileId |-> r.args.file_id]
       /\ \A i \in 2..n :
             IF r.loc.mime_type \in ExportableKinds
             THEN r.calls[i] = [api |-> "files.export_media",
                                fileId |-> r.args.file_id,
                                mimeType |-> ExportTarget(r.loc.mime_type)]
             ELSE r.calls[i] = [api |-> "files.get_media", fileId |-> r.args.file_id]
       /\ r.pc # "done" => r.result = NoValue
       /\ (r.pc = "done" /\ "content" \in DOMAIN r.result) =>
             /\ n >= 2
             /\ n = Len(r.rcvd) + 1
             /\ r.last.kind = "ok" /\ r.last.done
             /\ r.result.encoding \in {"utf-8", "base64"}
             /\ r.result.encoding = "utf-8" =>
                   Utf8Encode(r.result.content) = Concat(r.rcvd)
             /\ r.result.encoding = "base64" =>
                   B64Decode(r.result.content) = Concat(r.rcvd)
       /\ (r.pc = "done" /\ "content" \notin DOMAIN r.result) => "error" \in DOMAIN r.result

\* a step of a read_file in flight adds one call at the end of its calls
ReadFileStep ==
    \A s \in Slots :
        (inv[s].op = "gdrive_read_file" /\ inv[s].calls # <<>>) =>
            \/ UNCHANGED inv[s]
            \/ /\ inv'[s].op = "gdrive_read_file"
               /\ Len(inv'[s].calls) = Len(inv[s].calls) + 1
               /\ SubSeq(inv'[s].calls, 1, Len(inv[s].calls)) = inv[s].calls
            \/ /\ inv'[s] = Idle
               /\ returned'.op = "gdrive_read_file"
               /\ Len(returned'.calls) = Len(inv[s].calls) + 1
               /\ SubSeq(returned'.calls, 1, Len(inv[s].calls)) = inv[s].calls

\* C20: read_file fetches the metadata first, then makes media requests of
\* one kind only: the export to markdown, CSV, plain text or PNG when the
\* file is a document, spreadsheet, presentation or drawing, the raw
\* download otherwise, never both; the requests follow one another until a
\* chunk is reported as the last, and only then is a content returned, the
\* normalized content of the chunks.
C20_MetadataThenOneKindOfMedia ==
    /\ [](\A s \in Slots : inv[s].op = "gdrive_read_file" => ReadFileOrder(inv[s]))
    /\ []((Finished /\ returned.op = "gdrive_read_file") => ReadFileOrder(OfTask(returned)))
    /\ [][ReadFileStep]_vars

\* a drawing has been exported to PNG in two chunks and returned
C20_Witness ==
    /\ Finished
    /\ returned.op = "gdrive_read_file"
    /\ "content" \in DOMAIN returned.result
    /\ returned.loc.mime_type = "application/vnd.google-apps.drawing"
    /\ Len(MediaCallsOf(returned)) = 2
    /\ returned.calls[3].api = "files.export_media"

(***************************************************************************)
(* C21: the batch of create_expense_sheet                                  *)
(***************************************************************************)
\* the batchUpdate calls an invocation has made
BatchCallsOf(r) == SelectSeq(r.calls, LAMBDA c : c.api = "spreadsheets.batchUpdate")

\* the headers and the categories the invocation sets the sheet up with
HeadersOf(r) ==
    IF r.args.initial_headers.given THEN r.args.initial_headers.value ELSE DefaultHeaders

CategoriesOf(r) ==
    IF r.args.categories.given THEN r.args.categories.value ELSE DefaultCategories

\* how many requests of the batch are as `is` says
HowMany(requests, is(_)) == Cardinality({i \in 1..Len(requests) : is(requests[i])})

\* the format of a column from the second row on, put on the column of the
\* header `name`
ColumnFormat(q, format, headers, name) ==
    /\ q.kind = "repeatCell"
    /\ q.format = format
    /\ q.startRowIndex = 1
    /\ q.startColumnIndex = IndexOf(headers, name)
    /\ q.endColumnIndex = IndexOf(headers, name) + 1

\* a request that formats some column as `format`
AnyColumnFormat(q, format) == q.kind = "repeatCell" /\ q.format = format

\* the batch holds the five requests it always holds, once each, the three
\* that depend on a header exactly if the header is there, and nothing else
BatchContents(requests, headers, categories) ==
    LET has(name) == \E i \in 1..Len(headers) : headers[i] = name
        wanted(name) == IF has(name) THEN 1 ELSE 0
    IN /\ HowMany(requests, LAMBDA q : q = [kind |-> "updateCells", values |-> headers,
                                            rowIndex |-> 0, columnIndex |-> 0]) = 1
       /\ HowMany(requests, LAMBDA q : q = [kind |-> "repeatCell", format |-> "header",
                                            startRowIndex |-> 0, endRowIndex |-> 1]) = 1
       /\ HowMany(requests, LAMBDA q : q = [kind |-> "autoResizeDimensions",
                                            startIndex |-> 0,
                                            endIndex |-> Len(headers)]) = 1
       /\ HowMany(requests, LAMBDA q :
              /\ q.kind = "createDeveloperMetadata"
              /\ q.location = "spreadsheet"
              /\ q.metadataKey = "sheet_type"
              /\ q.metadataValue = "expense_tracker") = 1
       /\ HowMany(requests, LAMBDA q :
              /\ q.kind = "createDeveloperMetadata"
              /\ q.location = "spreadsheet"
              /\ q.metadataKey = "expense_categories"
              /\ q.metadataValue = JsonDumps(categories)) = 1
       /\ HowMany(requests, LAMBDA q : q.kind = "setDataValidation") = wanted("Category")
       /\ has("Category") =>
             HowMany(requests, LAMBDA q :
                 /\ q.kind = "setDataValidation"
                 /\ q.values = categories
                 /\ q.startRowIndex = 1
                 /\ q.startColumnIndex = IndexOf(headers, "Category")
                 /\ q.endColumnIndex = IndexOf(headers, "Category") + 1) = 1
       /\ HowMany(requests, LAMBDA q : AnyColumnFormat(q, "CURRENCY")) = wanted("Amount")
       /\ has("Amount") =>
             HowMany(requests, LAMBDA q : ColumnFormat(q, "CURRENCY", headers, "Amount")) = 1
       /\ HowMany(requests, LAMBDA q : AnyColumnFormat(q, "DATE")) = wanted("Date")
       /\ has("Date") =>
             HowMany(requests, LAMBDA q : ColumnFormat(q, "DATE", headers, "Date")) = 1
       /\ Len(requests) = 5 + wanted("Category") + wanted("Amount") + wanted("Date")

\* the calls of a create_expense_sheet: the creation of the file, then at
\* most one batch, which is there when the invocation succeeded
OneBatch(r) ==
    /\ Len(BatchCallsOf(r)) <= 1
    /\ \A i \in 1..Len(r.calls) :
          r.calls[i].api \in {"files.create", "spreadsheets.batchUpdate"}
    /\ (r.pc = "done" /\ "error" \notin DOMAIN r.result) => Len(BatchCallsOf(r)) = 1
    /\ \A i \in 1..Len(BatchCallsOf(r)) :
          BatchContents(BatchCallsOf(r)[i].requests, HeadersOf(r), CategoriesOf(r))

\* C21: create_expense_sheet sends its setup in one batchUpdate call and no
\* other: the batch holds the header row, the header styling, the column
\* auto-size and the two document-level metadata pairs sheet_type =
\* expense_tracker and expense_categories = the serialized categories, each
\* once; the dropdown validation exactly if the headers contain 'Category',
\* the currency format exactly if they contain 'Amount', the date format
\* exactly if they contain 'Date', each on the column of that header; and
\* nothing else.
C21_OneBatchWithTheSetup ==
    /\ \A s \in Slots : inv[s].op = "create_expense_sheet" => OneBatch(inv[s])
    /\ (Finished /\ returned.op = "create_expense_sheet") => OneBatch(OfTask(returned))

\* a sheet with the headers Memo, Category, Date has been set up: the batch
\* holds seven requests, none for an amount column
C21_Witness ==
    /\ Finished
    /\ returned.op = "create_expense_sheet"
    /\ "error" \notin DOMAIN returned.result
    /\ HeadersOf(returned) = <<"Memo", "Category", "Date">>
    /\ Len(BatchCallsOf(returned)) = 1
    /\ Len(BatchCallsOf(returned)[1].requests) = 7

(***************************************************************************)
(* C22: the date filter of get_expense_summary                             *)
(***************************************************************************)
\* the bounds of a date_range written start:end
BoundsOf(date_range) == Split(Codes(date_range), Colon)

\* row i has a date cell
DatedRows == {i \in 1..Len(SummaryRows) : Len(SummaryRows[i]) > SummaryDateIdx}

\* start <= date <= end, as strings
DateWithin(i, bounds) ==
    LET date == StrOf(SummaryRows[i][SummaryDateIdx + 1])
    IN LexLE(bounds[1], date) /\ LexLE(date, bounds[2])

\* the summary counts the rows `counted` and those only
Counts(counted) ==
    /\ returned.result.transaction_count = Cardinality(counted)
    /\ DOMAIN returned.result.by_category = {CategoryAt(i) : i \in counted}
    /\ \A k \in DOMAIN returned.result.by_category :
          returned.result.by_category[k].count =
              Cardinality({i \in counted : CategoryAt(i) = k})

\* the sheet with three dates summarized over 2024-01-02:2024-01-31: the
\* rows dated on the two bounds are counted, the one of 2024-01-01 is not
BoundsAreCounted ==
    (/\ Summarized
     /\ Len(SummaryRows) = 4
     /\ returned.args.date_range = "2024-01-02:2024-01-31") =>
        /\ returned.result.transaction_count = 2
        /\ returned.result.by_category =
               (StrCell("Food & Dining") :> [amount |-> 4500, count |-> 1])
               @@ (StrCell("Transportation") :> [amount |-> 1000, count |-> 1])

\* C22 (as stated): with a date_range start:end a row with a parseable
\* amount is counted exactly if its date is there and start <= date <= end
\* in the order of strings; with no date_range every row with a parseable
\* amount is counted.
C22_CountedIffDateWithin ==
    /\ (Summarized /\ Truthy(returned.args.date_range)
                   /\ Len(BoundsOf(returned.args.date_range)) = 2) =>
          Counts({i \in AmountRows \cap DatedRows :
                     DateWithin(i, BoundsOf(returned.args.date_range))})
    /\ (Summarized /\ ~Truthy(returned.args.date_range)) => Counts(AmountRows)

\* C22 (amended): with a date_range start:end a row that has a parseable
\* amount and a date is counted exactly if start <= date <= end in the
\* order of strings, the rows dated on either bound included; a row with a
\* parseable amount that ends before its date cell is counted whatever the
\* range; with no date_range every row with a parseable amount is counted.
C22_InclusiveLexicographicFilter ==
    /\ (Summarized /\ Truthy(returned.args.date_range)
                   /\ Len(BoundsOf(returned.args.date_range)) = 2) =>
          Counts({i \in AmountRows :
                     i \in DatedRows => DateWithin(i, BoundsOf(returned.args.date_range))})
    /\ (Summarized /\ ~Truthy(returned.args.date_range)) => Counts(AmountRows)
    /\ BoundsAreCounted

\* a summary over 2024-01-02:2024-01-31 has counted a row dated on a bound
\* and left out rows dated before the start and, as strings, after the end
C22_Witness ==
    /\ Summarized
    /\ returned.args.date_range = "2024-01-02:2024-01-31"
    /\ returned.result.transaction_count > 0
    /\ \E i \in AmountRows \cap DatedRows :
          ~DateWithin(i, BoundsOf(returned.args.date_range))

(***************************************************************************)
(* C23: the query of gdrive_search inside its literal                      *)
(***************************************************************************)
RECURSIVE LiteralEnd(_, _)
\* Where the quoted literal whose content begins at position i of a filter
\* ends, as the upstream reads filters: a backslash takes the character
\* after it into the literal, the first quote met otherwise closes it; 0
\* when the filter ends before the literal is closed.
LiteralEnd(text, i) ==
    IF i > Len(text) THEN 0
    ELSE IF text[i] = Backslash THEN LiteralEnd(text, i + 2)
    ELSE IF text[i] = Quote THEN i
    ELSE LiteralEnd(text, i + 1)

\* the filter up to the literal of the full-text condition: the root-folder
\* condition when a folder is configured, then "fullText contains '"
BeforeLiteral ==
    (IF Truthy(FOLDER_ID) THEN <<Quote>> \o FolderChars(FOLDER_ID) \o InParentsAnd
     ELSE <<>>) \o FullTextPrefix

\* the filter q is the conditions before the literal, then one literal that
\* its last character closes
OneFullTextCondition(q) ==
    /\ Len(q) > Len(BeforeLiteral)
    /\ SubSeq(q, 1, Len(BeforeLiteral)) = BeforeLiteral
    /\ LiteralEnd(q, Len(BeforeLiteral) + 1) = Len(q)

\* C23 (as stated): whatever the query, quotes and backslashes included, the
\* filter gdrive_search sends is one full-text condition, after the
\* root-folder condition when a folder is configured: the literal that holds
\* the query is closed by the last character of the filter and by no
\* character of the query.
C23_QueryStaysInLiteral ==
    /\ \A s \in Slots :
          (inv[s].op = "gdrive_search" /\ inv[s].pc = "list") =>
              OneFullTextCondition(inv[s].loc.search_query)
    /\ (Finished /\ returned.op = "gdrive_search") =>
          \A i \in 1..Len(returned.calls) : OneFullTextCondition(returned.calls[i].q)

(***************************************************************************)
(* C24: a date_range that does not split in two                            *)
(***************************************************************************)
\* get_expense_summary was given a date_range without ':' or with more than
\* one, and the sheet was read
BadRangeRead ==
    /\ Finished
    /\ returned.op = "get_expense_summary"
    /\ Truthy(returned.args.date_range)
    /\ Len(BoundsOf(returned.args.date_range)) # 2
    /\ returned.last.kind = "ok"

\* the envelope of a summary in which no row is counted
NothingCounted ==
    /\ "error" \notin DOMAIN returned.result
    /\ returned.result.total = 0
    /\ DOMAIN returned.result.by_category = {}
    /\ returned.result.transaction_count = 0

\* C24 (as stated): with a date_range that does not consist of two bounds
\* get_expense_summary returns no error: every data row is skipped and the
\* envelope has total 0, an empty by_category and transaction_count 0,
\* whatever the sheet holds.
C24_BadRangeSkipsEveryRow ==
    BadRangeRead => NothingCounted

\* C24 (amended): with a date_range that does not consist of two bounds
\* get_expense_summary returns no error: every data row that has a date cell
\* is skipped, and the envelope is the summary of the rows with a parseable
\* amount that end before their date cell; it has total 0, an empty
\* by_category and transaction_count 0 when every row with a parseable
\* amount has a date cell, as in every sheet whose Date column is not after
\* the Amount column.
C24_BadRangeSkipsDatedRows ==
    BadRangeRead =>
        /\ "error" \notin DOMAIN returned.result
        /\ Summarized => SummaryOf(AmountRows \ DatedRows, Round2)
        /\ (Summarized /\ AmountRows \subseteq DatedRows) => NothingCounted
        /\ ~Summarized => NothingCounted

\* a sheet with dated rows that have amounts was summarized over the
\* date_range "1:2:3", and nothing was counted
C24_Witness ==
    /\ BadRangeRead
    /\ Summarized
    /\ returned.args.date_range = "1:2:3"
    /\ Cardinality(AmountRows \cap DatedRows) >= 2
    /\ AmountRows \subseteq DatedRows
    /\ returned.result.transaction_count = 0

====
